---------------------------- MODULE Spec2Model ----------------------------
(***************************************************************************)
(* A model of yt-radar's core: the video filter, the ranker, the term      *)
(* matcher, the search service and the comment-terms service, together     *)
(* with the YouTube client they call.                                      *)
(*                                                                         *)
(* Representation.  A Python str is a sequence of one-character strings,   *)
(* so that strip(), lower(), "in" and count() are computed and not         *)
(* assumed.  An Optional value is <<>> (None) or <<x>>.  The outcome of a  *)
(* call that may raise is [tag |-> "ok", val |-> v] or                     *)
(* [tag |-> "raise", exc |-> name].  A publish timestamp string is the     *)
(* record [form, day]: its lexical form and, where it has one, the instant *)
(* it denotes, counted in days.  Video.title and Video.channel_title are   *)
(* read by no operation modelled here and are left out of the record.      *)
(***************************************************************************)
EXTENDS Integers, Sequences, FiniteSets, TLC

VARIABLES
    \* VideoFilter.apply(videos, f), called at time f_now
    f_pc, f_videos, f_filters, f_now, f_out,
    \* Ranker.sort(videos, sort_key)
    r_pc, r_videos, r_sort_key, r_out,
    \* TermMatcher.match(comments, tq)
    m_pc, m_comments, m_tq, m_out,
    \* YouTubeClient: the requests issued so far, each with its outcome, and
    \* the local variables of search_video_ids, of fetch_videos and of
    \* fetch_comment_text
    yt_log, yt_search, yt_fetch, yt_comments,
    \* SearchService.search(query, pages, per_page, top, sort, filters),
    \* called at time s_now; s_videos is what fetch_videos returned
    s_pc, s_args, s_now, s_videos, s_out,
    \* CommentTermsService.run_on_videos(videos, terms, comments_per_video):
    \* t_i is the position of the video whose comments are being fetched,
    \* t_comments[j] the comments fetch_comment_text returned for video j
    t_pc, t_args, t_i, t_comments, t_results, t_term_totals, t_out,
    \* CommentTermsService.run(query, pages, per_page, top_videos, terms,
    \* comments_per_video): run_videos is what fetch_videos returned
    run_pc, run_args, run_videos, run_out,
    \* config.get_api_key(): os.environ, the repo-local .env file and the
    \* per-user config file
    cfg_pc, cfg_environ, cfg_dotenv, cfg_user, cfg_out,
    \* gui/app.py: the Query and Terms entries, the worker threads started,
    \* the result queue, the status line, the dialogs shown, and what
    \* YTRadarApp displays: _videos, _combined_results,
    \* _analysis_by_video_id, _last_term_totals and the rows of the table
    g_query_var, g_terms_var, g_threads, g_q, g_status, g_dialogs,
    g_videos, g_combined_results, g_analysis_by_video_id,
    g_last_term_totals, g_tree,
    \* the payload that "Export JSON" wrote to the file, once it has
    g_export,
    \* a call of YouTubeClient.fetch_videos or fetch_comment_text by itself:
    \* the method and its argument, and what the call gave
    yc_pc, yc_args, yc_out,
    \* gui/app.py, ThumbnailHover: the row of the table under the mouse,
    \* _current_row, the row of the scheduled _show_for_row (_after_id),
    \* the label of the tooltip (_tip, _label), _cache, _pending, and the
    \* downloads started whose callback has not run yet
    h_mouse, h_current_row, h_after_id, h_tip, h_cache, h_pending,
    h_workers,
    \* the video ids of which a download has failed so far
    h_failed

filterVars == <<f_pc, f_videos, f_filters, f_now, f_out>>
rankerVars == <<r_pc, r_videos, r_sort_key, r_out>>
matcherVars == <<m_pc, m_comments, m_tq, m_out>>
clientVars == <<yt_log, yt_search, yt_fetch, yt_comments>>
termsVars ==
    <<t_pc, t_args, t_i, t_comments, t_results, t_term_totals, t_out>>
searchVars == <<s_pc, s_args, s_now, s_videos, s_out>>
runVars == <<run_pc, run_args, run_videos, run_out>>
configVars == <<cfg_pc, cfg_environ, cfg_dotenv, cfg_user, cfg_out>>
displayVars ==
    <<g_videos, g_combined_results, g_analysis_by_video_id,
      g_last_term_totals, g_tree>>
guiVars ==
    <<g_query_var, g_terms_var, g_threads, g_q, g_status, g_dialogs,
      displayVars, g_export>>
callVars == <<yc_pc, yc_args, yc_out>>
hoverVars ==
    <<h_mouse, h_current_row, h_after_id, h_tip, h_cache, h_pending,
      h_workers, h_failed>>
vars ==
    <<filterVars, rankerVars, matcherVars, clientVars, searchVars, termsVars,
      runVars, configVars, guiVars, callVars, hoverVars>>

----------------------------------------------------------------------------
(* Bounds of the model *)

\* longest video list handed to the filter and to the ranker
MaxVideos == 3

\* longest comment list and longest term tuple handed to the matcher
MaxComments == 4
MaxTerms == 2

\* most pages the API takes to end one listing of comments
MaxCommentPages == 2

----------------------------------------------------------------------------
(* Python values *)

None == <<>>
Some(x) == <<x>>
Ok(v) == [tag |-> "ok", val |-> v]
Raise(e) == [tag |-> "raise", exc |-> e]

SeqsUpTo(S, n) == UNION {[1..k -> S] : k \in 0..n}

Range(s) == {s[i] : i \in DOMAIN s}

Whitespace == {" ", "\t"}

UpperToLower ==
    [A |-> "a", B |-> "b", C |-> "c", L |-> "l", P |-> "p", O |-> "o",
     V |-> "v"]

\* str.lower()
LowerChar(c) == IF c \in DOMAIN UpperToLower THEN UpperToLower[c] ELSE c
Lower(s) == [i \in 1..Len(s) |-> LowerChar(s[i])]

\* str.strip()
Strip(s) ==
    LET keep == {i \in 1..Len(s) : s[i] \notin Whitespace}
    IN  IF keep = {} THEN <<>>
        ELSE SubSeq(s, CHOOSE i \in keep : \A j \in keep : i <= j,
                       CHOOSE i \in keep : \A j \in keep : i >= j)

\* t in text
Contains(text, t) ==
    \E i \in 0..(Len(text) - Len(t)) : SubSeq(text, i + 1, i + Len(t)) = t

\* text.count(t): occurrences found scanning left to right, each search
\* resuming after the end of the previous occurrence
RECURSIVE CountFrom(_, _, _)
CountFrom(text, t, i) ==
    IF i + Len(t) - 1 > Len(text) THEN 0
    ELSE IF SubSeq(text, i, i + Len(t) - 1) = t
         THEN 1 + CountFrom(text, t, i + Len(t))
         ELSE CountFrom(text, t, i + 1)

Count(text, t) == IF t = <<>> THEN Len(text) + 1 ELSE CountFrom(text, t, 1)

----------------------------------------------------------------------------
(* models.py *)

Video(id, published, views, comments) ==
    [video_id |-> id, published_at |-> published,
     view_count |-> views, comment_count |-> comments]

\* publishedAt strings: "2025-01-20T12:34:56Z", "...+00:00", one without
\* an offset, text that is no date, and the empty string
Published(form, day) == [form |-> form, day |-> day]

----------------------------------------------------------------------------
(* youtube_client.py: the items of a videos.list response *)

\* a statistics value as the API sends it: a string of digits, or absent
Digits(n) == [kind |-> "digits", n |-> n]
Absent == [kind |-> "absent", n |-> 0]

\* _safe_int
_safe_int(value) == IF value.kind = "digits" THEN value.n ELSE 0

ApiItem(id, published, views, comments) ==
    [id |-> id, snippet |-> [publishedAt |-> published],
     statistics |-> [viewCount |-> views, commentCount |-> comments]]

\* The videos the platform knows: Catalog[id] is the item it sends for the
\* identifier id.  Video 7 has its statistics hidden.
Catalog ==
    <<ApiItem(1, Published("Z", 90), Digits(100), Digits(5)),
      ApiItem(2, Published("Z", 40), Digits(50), Digits(20)),
      ApiItem(3, Published("offset", 70), Digits(100), Digits(20)),
      ApiItem(4, Published("naive", 90), Digits(100), Digits(20)),
      ApiItem(5, Published("garbage", 0), Digits(100), Digits(20)),
      ApiItem(6, Published("empty", 0), Digits(50), Digits(5)),
      ApiItem(7, Published("naive", 90), Absent, Absent),
      ApiItem(8, Published("Z", 100), Digits(100), Digits(5))>>

\* the Video that fetch_videos builds from an item
video_of_item(item) ==
    Video(item.id, item.snippet.publishedAt,
          _safe_int(item.statistics.viewCount),
          _safe_int(item.statistics.commentCount))

VideoPool == {video_of_item(Catalog[id]) : id \in DOMAIN Catalog}

----------------------------------------------------------------------------
(* services/filtering.py *)

Filters(min_views, min_comments, since_days) ==
    [min_views |-> min_views, min_comments |-> min_comments,
     since_days |-> since_days]

FiltersPool ==
    {Filters(mv, mc, sd) : mv \in {0, 60}, mc \in {0, 10},
                           sd \in {None, Some(-1), Some(0), Some(30)}}

NowPool == {100, 120}

\* published_at.replace("Z", "+00:00")
replace_Z(published_at) ==
    IF published_at.form = "Z"
    THEN [published_at EXCEPT !.form = "offset"]
    ELSE published_at

\* datetime.fromisoformat: an aware datetime for a string with an offset, a
\* naive one for a string without, ValueError for anything else (a
\* trailing "Z" included)
fromisoformat(s) ==
    CASE s.form = "offset" -> Ok([aware |-> TRUE, t |-> s.day])
      [] s.form = "naive"  -> Ok([aware |-> FALSE, t |-> s.day])
      [] OTHER             -> Raise("ValueError")

_since_cutoff_noclamp(days, now) ==
    IF days = None THEN None ELSE Some(now - days[1])

_since_cutoff(days, now) ==
    IF days = None THEN None
    ELSE LET d == IF days[1] < 0 THEN 0 ELSE days[1]
         IN  Some(now - d)

\* dt >= cutoff raises TypeError when dt is naive: cutoff is aware
_published_after(published_at, cutoff) ==
    LET dt == fromisoformat(replace_Z(published_at))
    IN  IF dt.tag = "raise" THEN Ok(FALSE)
        ELSE IF ~dt.val.aware THEN Raise("TypeError")
        ELSE Ok(dt.val.t >= cutoff)

RECURSIVE apply_loop(_, _, _, _, _)
apply_loop(videos, f, cutoff, i, out) ==
    IF i > Len(videos) THEN Ok(out)
    ELSE LET v == videos[i]
         IN  IF v.view_count < f.min_views
             THEN apply_loop(videos, f, cutoff, i + 1, out)
             ELSE IF v.comment_count < f.min_comments
             THEN apply_loop(videos, f, cutoff, i + 1, out)
             ELSE IF cutoff # None
             THEN LET after == _published_after(v.published_at, cutoff[1])
                  IN  IF after.tag = "raise" THEN after
                      ELSE IF ~after.val
                      THEN apply_loop(videos, f, cutoff, i + 1, out)
                      ELSE apply_loop(videos, f, cutoff, i + 1,
                                      Append(out, v))
             ELSE apply_loop(videos, f, cutoff, i + 1, Append(out, v))

\* VideoFilter.apply
apply(videos, f, now) ==
    apply_loop(videos, f, _since_cutoff(f.since_days, now), 1, <<>>)

FilterIdle ==
    /\ f_pc = "idle"
    /\ f_videos = <<>>
    /\ f_filters = Filters(0, 0, None)
    /\ f_now = 0
    /\ f_out = Ok(<<>>)

FilterInit ==
    /\ f_pc = "ready"
    /\ f_videos \in SeqsUpTo(VideoPool, MaxVideos)
    /\ f_filters \in FiltersPool
    /\ f_now \in NowPool
    /\ f_out = Ok(<<>>)

ApplyFilter ==
    /\ f_pc = "ready"
    /\ f_out' = apply(f_videos, f_filters, f_now)
    /\ f_pc' = "done"
    /\ UNCHANGED <<f_videos, f_filters, f_now>>
    /\ UNCHANGED <<rankerVars, matcherVars, clientVars, searchVars,
                 termsVars, runVars, configVars, guiVars,
                 callVars, hoverVars>>

----------------------------------------------------------------------------
(* services/ranker.py *)

VALID_SORTS == {<<"v", "i", "e", "w", "s">>,
                <<"c", "o", "m", "m", "e", "n", "t", "s">>}

SortKeyPool ==
    {None,
     Some(<<>>),
     Some(<<"v", "i", "e", "w", "s">>),
     Some(<<"c", "o", "m", "m", "e", "n", "t", "s">>),
     Some(<<" ", "C", "o", "m", "m", "e", "n", "t", "s", "\t">>),
     Some(<<"V", "I", "E", "W", "S">>),
     Some(<<"l", "i", "k", "e", "s">>),
     Some(<<"c", "o", "m", "m", "e", "n", "t">>)}

\* Python's order on the tuples used as sort keys
RECURSIVE tuple_lt(_, _)
tuple_lt(x, y) ==
    IF x = <<>> \/ y = <<>> THEN x = <<>> /\ y # <<>>
    ELSE IF Head(x) # Head(y) THEN Head(x) < Head(y)
    ELSE tuple_lt(Tail(x), Tail(y))

\* where a descending stable sort puts x among the already placed
\* elements: after every element whose key is not smaller
RECURSIVE insert_desc_unstable(_, _, _)
insert_desc_unstable(placed, x, key) ==
    IF placed = <<>> THEN <<x>>
    ELSE IF tuple_lt(key[x], key[Head(placed)])
         THEN <<Head(placed)>> \o insert_desc_unstable(Tail(placed), x, key)
         ELSE <<x>> \o placed

RECURSIVE insert_desc(_, _, _)
insert_desc(placed, x, key) ==
    IF placed = <<>> THEN <<x>>
    ELSE IF ~tuple_lt(key[Head(placed)], key[x])
         THEN <<Head(placed)>> \o insert_desc(Tail(placed), x, key)
         ELSE <<x>> \o placed

RECURSIVE sorted_reverse_from(_, _, _, _)
sorted_reverse_from(items, key, i, placed) ==
    IF i > Len(items) THEN placed
    ELSE sorted_reverse_from(items, key, i + 1,
                             insert_desc(placed, items[i], key))

\* sorted(items, key=..., reverse=True) and list.sort(key=..., reverse=True):
\* descending by key, elements with equal keys in their original order.
\* key maps each element to its key, a tuple of integers.
sorted_reverse(items, key) == sorted_reverse_from(items, key, 1, <<>>)

\* lambda v: v.view_count, lambda v: v.comment_count
by_view_count(videos) == [v \in Range(videos) |-> <<v.view_count>>]
by_comment_count(videos) == [v \in Range(videos) |-> <<v.comment_count>>]

\* Ranker.sort
sort(videos, sort_key) ==
    LET given == IF sort_key = None THEN <<>> ELSE sort_key[1]
        key0 == Lower(Strip(given))
        key == IF key0 \notin VALID_SORTS
               THEN <<"v", "i", "e", "w", "s">> ELSE key0
    IN  IF key = <<"c", "o", "m", "m", "e", "n", "t", "s">>
        THEN sorted_reverse(videos, by_comment_count(videos))
        ELSE sorted_reverse(videos, by_view_count(videos))

RankerIdle ==
    /\ r_pc = "idle"
    /\ r_videos = <<>>
    /\ r_sort_key = None
    /\ r_out = <<>>

RankerInit ==
    /\ r_pc = "ready"
    /\ r_videos \in SeqsUpTo(VideoPool, MaxVideos)
    /\ r_sort_key \in SortKeyPool
    /\ r_out = <<>>

SortVideos ==
    /\ r_pc = "ready"
    /\ r_out' = sort(r_videos, r_sort_key)
    /\ r_pc' = "done"
    /\ UNCHANGED <<r_videos, r_sort_key>>
    /\ UNCHANGED <<filterVars, matcherVars, clientVars, searchVars,
                 termsVars, runVars, configVars, guiVars,
                 callVars, hoverVars>>

----------------------------------------------------------------------------
(* services/term_matcher.py *)

TermQuery(terms, mode) == [terms |-> terms, mode |-> mode]

\* comment texts: "aAa", "b a", "B" and the empty text
CommentPool == {<<"a", "A", "a">>, <<"b", " ", "a">>, <<"B">>, <<>>}

\* terms: "a", "B", "aa", " a" and the blank " "
TermPool == {<<"a">>, <<"B">>, <<"a", "a">>, <<" ", "a">>, <<" ">>}

ModePool == {"any", "all"}

\* if len(samples) < 3
MaxSamples == 3

RECURSIVE SumSeq(_)
SumSeq(ns) == IF ns = <<>> THEN 0 ELSE Head(ns) + SumSeq(Tail(ns))

\* [t.lower() for t in tq.terms if t.strip()]
lowered_terms(terms) ==
    LET kept == SelectSeq(terms, LAMBDA t : Strip(t) # <<>>)
    IN  [i \in 1..Len(kept) |-> Lower(kept[i])]

\* one pass of the loop over the comments; st = <<total_hits,
\* matched_comments, samples>>
match_step_all_hits(st, c, terms, mode) ==
    LET text == Lower(c)
        hits == SumSeq([i \in 1..Len(terms) |-> Count(text, terms[i])])
        ok == IF mode = "all"
              THEN \A i \in 1..Len(terms) : Contains(text, terms[i])
              ELSE \E i \in 1..Len(terms) : Contains(text, terms[i])
    IN  IF text = <<>> THEN st
        ELSE IF ok
        THEN <<st[1] + hits, st[2] + 1,
               IF Len(st[3]) < MaxSamples THEN Append(st[3], c) ELSE st[3]>>
        ELSE <<st[1] + hits, st[2], st[3]>>

match_step_one_hit_per_comment(st, c, terms, mode) ==
    LET text == Lower(c)
        ok == IF mode = "all"
              THEN \A i \in 1..Len(terms) : Contains(text, terms[i])
              ELSE \E i \in 1..Len(terms) : Contains(text, terms[i])
    IN  IF text = <<>> THEN st
        ELSE IF ok
        THEN <<st[1] + 1, st[2] + 1,
               IF Len(st[3]) < MaxSamples THEN Append(st[3], c) ELSE st[3]>>
        ELSE st

match_step_lowered_samples(st, c, terms, mode) ==
    LET text == Lower(c)
        hits == SumSeq([i \in 1..Len(terms) |-> Count(text, terms[i])])
        ok == IF mode = "all"
              THEN \A i \in 1..Len(terms) : Contains(text, terms[i])
              ELSE \E i \in 1..Len(terms) : Contains(text, terms[i])
    IN  IF text = <<>> THEN st
        ELSE IF ok
        THEN <<st[1] + hits, st[2] + 1,
               IF Len(st[3]) < MaxSamples THEN Append(st[3], text)
               ELSE st[3]>>
        ELSE st

match_step(st, c, terms, mode) ==
    LET text == Lower(c)
        hits == SumSeq([i \in 1..Len(terms) |-> Count(text, terms[i])])
        ok == IF mode = "all"
              THEN \A i \in 1..Len(terms) : Contains(text, terms[i])
              ELSE \E i \in 1..Len(terms) : Contains(text, terms[i])
    IN  IF text = <<>> THEN st
        ELSE IF ok
        THEN <<st[1] + hits, st[2] + 1,
               IF Len(st[3]) < MaxSamples THEN Append(st[3], c) ELSE st[3]>>
        ELSE st

RECURSIVE match_loop(_, _, _, _, _)
match_loop(comments, terms, mode, i, st) ==
    IF i > Len(comments) THEN st
    ELSE match_loop(comments, terms, mode, i + 1,
                    match_step(st, comments[i], terms, mode))

\* TermMatcher.match
match(comments, tq) ==
    LET terms == lowered_terms(tq.terms)
    IN  IF terms = <<>> THEN <<0, 0, <<>>>>
        ELSE match_loop(comments, terms, tq.mode, 1, <<0, 0, <<>>>>)

MatcherIdle ==
    /\ m_pc = "idle"
    /\ m_comments = <<>>
    /\ m_tq = TermQuery(<<>>, "any")
    /\ m_out = <<0, 0, <<>>>>

MatcherInit ==
    /\ m_pc = "ready"
    /\ m_comments \in SeqsUpTo(CommentPool, MaxComments)
    /\ m_tq \in {TermQuery(ts, mode) : ts \in SeqsUpTo(TermPool, MaxTerms),
                                       mode \in ModePool}
    /\ m_out = <<0, 0, <<>>>>

MatchComments ==
    /\ m_pc = "ready"
    /\ m_out' = match(m_comments, m_tq)
    /\ m_pc' = "done"
    /\ UNCHANGED <<m_comments, m_tq>>
    /\ UNCHANGED <<filterVars, rankerVars, clientVars, searchVars, termsVars,
                 runVars, configVars, guiVars,
                 callVars, hoverVars>>

----------------------------------------------------------------------------
(* youtube_client.py: search_video_ids and fetch_videos *)

\* per_page > 50; _chunks(vids, 50)
MaxPerPage == 50
MaxIdsPerRequest == 50

Min(a, b) == IF a < b THEN a ELSE b

\* nextPageToken of a response: None, or a token
TokenPool == {None, Some(1), Some(2)}

\* The items of a search.list response, each the videoId it carries
\* (None for an item without one).
SearchItemsPool ==
    {<<>>, <<Some(1)>>, <<Some(4)>>, <<Some(1), Some(2)>>,
     <<Some(2), Some(1)>>, <<Some(3), Some(3)>>, <<Some(2), None>>}

\* what execute() can do for a search.list request: raise, or deliver a
\* page of at most maxResults items
SearchOutcomes(maxResults) ==
    {Raise("HttpError")} \cup
    {Ok([items |-> its, nextPageToken |-> tok]) :
        its \in {p \in SearchItemsPool : Len(p) <= maxResults},
        tok \in TokenPool}

\* what execute() can do for a videos.list request: raise, or deliver the
\* items of the identifiers the platform knows
VideosOutcomes(chunk) ==
    {Raise("HttpError"),
     Ok([items |->
            LET known == SelectSeq(chunk, LAMBDA id : id \in DOMAIN Catalog)
            IN  [i \in 1..Len(known) |-> Catalog[known[i]]]])}

search_video_ids_begin_noclamp(pages, per_page) ==
    [pages |-> pages, per_page |-> per_page, ids |-> <<>>,
     page_token |-> None, n |-> 0]

\* search_video_ids up to its first request: the clamps and the locals
search_video_ids_begin(pages, per_page) ==
    [pages |-> IF pages < 1 THEN 1 ELSE pages,
     per_page |-> IF per_page < 1 THEN 1
                  ELSE IF per_page > MaxPerPage THEN MaxPerPage
                  ELSE per_page,
     ids |-> <<>>, page_token |-> None, n |-> 0]

SearchIdle == search_video_ids_begin(1, 1)

\* dedupe while preserving order
RECURSIVE dedupe_from(_, _, _)
dedupe_from(ids, i, unique) ==
    IF i > Len(ids) THEN unique
    ELSE dedupe_from(ids, i + 1,
                     IF ids[i] \in Range(unique) THEN unique
                     ELSE Append(unique, ids[i]))

dedupe_nothing(ids) == ids

dedupe(ids) == dedupe_from(ids, 1, <<>>)

\* the videoIds of a page's items, the items without one skipped
RECURSIVE video_ids_of(_)
video_ids_of(items) ==
    IF items = <<>> THEN <<>>
    ELSE (IF Head(items) = None THEN <<>> ELSE <<Head(items)[1]>>)
         \o video_ids_of(Tail(items))

\* one pass of the loop of search_video_ids on the outcome of its
\* request: the exception leaves the method; a page without a token, or
\* the last of the pages, ends the loop and the method returns
search_video_ids_step(loc, outcome) ==
    IF outcome.tag = "raise" THEN [status |-> "raise", exc |-> outcome.exc]
    ELSE LET ids == loc.ids \o video_ids_of(outcome.val.items)
             tok == outcome.val.nextPageToken
         IN  IF tok = None \/ loc.n + 1 >= loc.pages
             THEN [status |-> "return", val |-> dedupe(ids)]
             ELSE [status |-> "more",
                   loc |-> [loc EXCEPT !.ids = ids, !.page_token = tok,
                                       !.n = loc.n + 1]]

SearchRequest(loc, outcome) ==
    [api |-> "search.list", maxResults |-> loc.per_page,
     pageToken |-> loc.page_token, outcome |-> outcome]

_chunks_overlapping(items, size) ==
    [k \in 1..((Len(items) + size - 1) \div size) |->
        SubSeq(items, IF k = 1 THEN 1 ELSE (k - 1) * size,
               Min(k * size, Len(items)))]

\* _chunks
_chunks(items, size) ==
    [k \in 1..((Len(items) + size - 1) \div size) |->
        SubSeq(items, (k - 1) * size + 1, Min(k * size, Len(items)))]

\* fetch_videos up to its first request
fetch_videos_begin(video_ids) ==
    [chunks |-> _chunks(video_ids, MaxIdsPerRequest), k |-> 1,
     videos |-> <<>>]

FetchIdle == fetch_videos_begin(<<>>)

\* one pass of the loop of fetch_videos on the outcome of its request
fetch_videos_step(loc, outcome) ==
    IF outcome.tag = "raise" THEN [status |-> "raise", exc |-> outcome.exc]
    ELSE LET items == outcome.val.items
             videos == loc.videos \o
                       [i \in 1..Len(items) |-> video_of_item(items[i])]
         IN  IF loc.k >= Len(loc.chunks)
             THEN [status |-> "return", val |-> videos]
             ELSE [status |-> "more",
                   loc |-> [loc EXCEPT !.videos = videos, !.k = loc.k + 1]]

VideosRequest(loc, outcome) ==
    [api |-> "videos.list", id |-> loc.chunks[loc.k], outcome |-> outcome]

(* youtube_client.py: fetch_comment_text *)

\* batch = min(100, ...)
MaxCommentsPerRequest == 100

\* comment texts the API delivers: "aA", "b a"; NoText is an item whose
\* snippet carries no textDisplay
TextA == <<"a", "A">>
TextB == <<"b", " ", "a">>
NoText == <<>>

\* the items of a commentThreads.list response, each the text it carries
CommentItemsPool ==
    {<<>>, <<TextA>>, <<TextB>>, <<TextA, TextB>>, <<NoText>>}

returns_without_request_below_zero(max_comments) == max_comments < 0

\* if max_comments < 1: return []
returns_without_request(max_comments) == max_comments < 1

\* fetch_comment_text at the head of its loop (max_comments >= 1)
fetch_comment_text_begin(max_comments) ==
    [max_comments |-> max_comments, texts |-> <<>>, page_token |-> None,
     n |-> 0]

CommentsIdle == fetch_comment_text_begin(0)

comments_batch_of_whole(loc) ==
    Min(MaxCommentsPerRequest, loc.max_comments)

\* batch = min(100, max_comments - len(texts))
comments_batch(loc) ==
    Min(MaxCommentsPerRequest, loc.max_comments - Len(loc.texts))

\* one pass of the loop of fetch_comment_text on the outcome of its
\* request: an exception returns the texts gathered so far; a page without
\* a token ends the loop; otherwise the loop goes on while texts are missing
fetch_comment_text_step_drop(loc, outcome) ==
    IF outcome.tag = "raise" THEN [status |-> "return", val |-> <<>>]
    ELSE LET texts == loc.texts \o
                      SelectSeq(outcome.val.items, LAMBDA t : t # NoText)
             tok == outcome.val.nextPageToken
         IN  IF tok # None /\ Len(texts) < loc.max_comments
             THEN [status |-> "more",
                   loc |-> [loc EXCEPT !.texts = texts, !.page_token = tok,
                                       !.n = loc.n + 1]]
             ELSE [status |-> "return", val |-> texts]

fetch_comment_text_step(loc, outcome) ==
    IF outcome.tag = "raise" THEN [status |-> "return", val |-> loc.texts]
    ELSE LET texts == loc.texts \o
                      SelectSeq(outcome.val.items, LAMBDA t : t # NoText)
             tok == outcome.val.nextPageToken
         IN  IF tok # None /\ Len(texts) < loc.max_comments
             THEN [status |-> "more",
                   loc |-> [loc EXCEPT !.texts = texts, !.page_token = tok,
                                       !.n = loc.n + 1]]
             ELSE [status |-> "return", val |-> texts]

\* what execute() can do for a commentThreads.list request: raise, or
\* deliver a page of at most maxResults items.  The API ends a listing
\* within MaxCommentPages pages.
CommentsOutcomes(loc) ==
    {Raise("HttpError")} \cup
    {o \in {Ok([items |-> its, nextPageToken |-> tok]) :
               its \in {p \in CommentItemsPool :
                           Len(p) <= comments_batch(loc)},
               tok \in {None, Some(1)}} :
        loc.n + 1 >= MaxCommentPages
            => fetch_comment_text_step(loc, o).status = "return"}

\* call is the position, in the caller's video list, of the video that
\* the request is issued for
CommentsRequest(call, video_id, loc, outcome) ==
    [api |-> "commentThreads.list", call |-> call, videoId |-> video_id,
     maxResults |-> comments_batch(loc), pageToken |-> loc.page_token,
     outcome |-> outcome]

ClientIdle ==
    /\ yt_log = <<>>
    /\ yt_search = SearchIdle
    /\ yt_fetch = FetchIdle
    /\ yt_comments = CommentsIdle

----------------------------------------------------------------------------
(* youtube_client.py: fetch_videos and fetch_comment_text called by
   themselves *)

\* Identifier lists of lengths around the batch size.  The platform knows
\* the identifiers 1..8 (Catalog) and does not know 0.
IdList(len, shift) == [i \in 1..len |-> (i + shift) % 9]

IdListPool ==
    {IdList(len, shift) :
        len \in {0, 1, 2, 49, 50, 51, 99, 100, 101}, shift \in 0..3}

CallArgs(method, arg) == [method |-> method, arg |-> arg]

CallIdle ==
    /\ yc_pc = "idle"
    /\ yc_args = CallArgs("none", 0)
    /\ yc_out = Ok(<<>>)

\* fetch_videos(video_ids) has been called
FetchVideosInit ==
    /\ yc_pc = "called"
    /\ yc_args \in {CallArgs("fetch_videos", ids) : ids \in IdListPool}
    /\ yc_out = Ok(<<>>)

otherThanCallVars ==
    <<filterVars, rankerVars, matcherVars, searchVars, termsVars, runVars,
      configVars, guiVars, hoverVars>>

\* vids = list(video_ids); if not vids: return []; otherwise the chunks
\* are made and the loop is entered
FetchVideosBegin ==
    /\ yc_pc = "called"
    /\ yc_args.method = "fetch_videos"
    /\ IF yc_args.arg = <<>>
       THEN /\ yc_pc' = "done"
            /\ yc_out' = Ok(<<>>)
            /\ UNCHANGED yt_fetch
       ELSE /\ yc_pc' = "request"
            /\ yt_fetch' = fetch_videos_begin(yc_args.arg)
            /\ UNCHANGED yc_out
    /\ UNCHANGED <<yc_args, yt_log, yt_search, yt_comments,
                   otherThanCallVars>>

\* videos.list answers: fetch_videos goes on to its next chunk, raises,
\* or returns
FetchVideosRequest ==
    /\ yc_pc = "request"
    /\ yc_args.method = "fetch_videos"
    /\ \E outcome \in VideosOutcomes(yt_fetch.chunks[yt_fetch.k]) :
          LET r == fetch_videos_step(yt_fetch, outcome)
          IN  /\ yt_log' = Append(yt_log, VideosRequest(yt_fetch, outcome))
              /\ CASE r.status = "more" ->
                        /\ yt_fetch' = r.loc
                        /\ UNCHANGED <<yc_pc, yc_out>>
                   [] r.status = "raise" ->
                        /\ yc_pc' = "raised"
                        /\ yc_out' = Raise(r.exc)
                        /\ UNCHANGED yt_fetch
                   [] r.status = "return" ->
                        /\ yc_pc' = "done"
                        /\ yc_out' = Ok(r.val)
                        /\ UNCHANGED yt_fetch
    /\ UNCHANGED <<yc_args, yt_search, yt_comments, otherThanCallVars>>

\* fetch_comment_text(video_id, max_comments) has been called
FetchCommentTextInit ==
    /\ yc_pc = "called"
    /\ yc_args \in {CallArgs("fetch_comment_text", n) : n \in -1..3}
    /\ yc_out = Ok(<<>>)

\* What execute() can do for a commentThreads.list request when nothing
\* is assumed about the length of the listing: raise, or deliver a page
\* of at most maxResults items, with or without the token of a next page
\* (which is not the token of the page asked for).
CommentsOutcomesOfAnyListing(loc) ==
    {Raise("HttpError")} \cup
    {Ok([items |-> its, nextPageToken |-> tok]) :
        its \in {p \in CommentItemsPool : Len(p) <= comments_batch(loc)},
        tok \in TokenPool \ {t \in {loc.page_token} : t # None}}

\* if max_comments < 1: return []; otherwise the loop is entered
FetchCommentTextBegin ==
    /\ yc_pc = "called"
    /\ yc_args.method = "fetch_comment_text"
    /\ IF returns_without_request(yc_args.arg)
       THEN /\ yc_pc' = "done"
            /\ yc_out' = Ok(<<>>)
            /\ UNCHANGED yt_comments
       ELSE /\ yc_pc' = "request"
            /\ yt_comments' = fetch_comment_text_begin(yc_args.arg)
            /\ UNCHANGED yc_out
    /\ UNCHANGED <<yc_args, yt_log, yt_search, yt_fetch, otherThanCallVars>>

\* commentThreads.list answers: fetch_comment_text goes on to the next
\* page or returns.  The requests are not logged and the pages not
\* counted here, their number having no bound.
FetchCommentTextRequest ==
    /\ yc_pc = "request"
    /\ yc_args.method = "fetch_comment_text"
    /\ \E outcome \in CommentsOutcomesOfAnyListing(yt_comments) :
          LET r == fetch_comment_text_step(yt_comments, outcome)
          IN  CASE r.status = "more" ->
                     /\ yt_comments' = [r.loc EXCEPT !.n = 0]
                     /\ UNCHANGED <<yc_pc, yc_out>>
                [] r.status = "return" ->
                     /\ yc_pc' = "done"
                     /\ yc_out' = Ok(r.val)
                     /\ UNCHANGED yt_comments
    /\ UNCHANGED <<yc_args, yt_log, yt_search, yt_fetch, otherThanCallVars>>

----------------------------------------------------------------------------
(* services/search_service.py *)

SearchArgs(pages, per_page, top, sort_key, filters) ==
    [pages |-> pages, per_page |-> per_page, top |-> top,
     sort |-> sort_key, filters |-> filters]

SearchArgsPool ==
    {SearchArgs(pages, per_page, top, sort_key, filters) :
        pages \in {-1, 0, 2}, per_page \in {-1, 0, 2, 60},
        top \in {0, 1, 2},
        sort_key \in {Some(<<"v", "i", "e", "w", "s">>),
                      Some(<<"c", "o", "m", "m", "e", "n", "t", "s">>)},
        filters \in {None, Some(Filters(60, 0, None)),
                     Some(Filters(0, 0, Some(30)))}}

\* ranked[:top]
take(items, n) == SubSeq(items, 1, Min(n, Len(items)))

search_rest_noclamp(videos, args, now) ==
    LET filtered == IF args.filters # None
                    THEN apply(videos, args.filters[1], now)
                    ELSE Ok(videos)
    IN  IF filtered.tag = "raise" THEN filtered
        ELSE Ok(take(sort(filtered.val, args.sort), args.top))

\* search from the return of fetch_videos on: filter, rank, truncate
search_rest(videos, args, now) ==
    LET filtered == IF args.filters # None
                    THEN apply(videos, args.filters[1], now)
                    ELSE Ok(videos)
    IN  IF filtered.tag = "raise" THEN filtered
        ELSE LET ranked == sort(filtered.val, args.sort)
                 top == IF args.top < 1 THEN 1 ELSE args.top
             IN  Ok(take(ranked, top))

ServiceIdle ==
    /\ s_pc = "idle"
    /\ s_args = SearchArgs(1, 1, 1, None, None)
    /\ s_now = 0
    /\ s_videos = <<>>
    /\ s_out = Ok(<<>>)

\* search has been called and is about to issue its first request
ServiceInit ==
    /\ s_pc = "search_video_ids"
    /\ s_args \in SearchArgsPool
    /\ s_now = 100
    /\ s_videos = <<>>
    /\ s_out = Ok(<<>>)
    /\ yt_log = <<>>
    /\ yt_search = search_video_ids_begin(s_args.pages, s_args.per_page)
    /\ yt_fetch = FetchIdle
    /\ yt_comments = CommentsIdle

\* search.list answers: search_video_ids goes on to its next page, or
\* raises out of search, or returns; then fetch_videos starts, and with no
\* identifier it returns at once and search runs to its end
SearchListRequest ==
    /\ s_pc = "search_video_ids"
    /\ \E outcome \in SearchOutcomes(yt_search.per_page) :
          LET r == search_video_ids_step(yt_search, outcome)
          IN  /\ yt_log' = Append(yt_log, SearchRequest(yt_search, outcome))
              /\ CASE r.status = "more" ->
                        /\ yt_search' = r.loc
                        /\ UNCHANGED <<yt_fetch, s_pc, s_videos, s_out>>
                   [] r.status = "raise" ->
                        /\ s_pc' = "raised"
                        /\ s_out' = Raise(r.exc)
                        /\ UNCHANGED <<yt_search, yt_fetch, s_videos>>
                   [] r.status = "return" /\ r.val = <<>> ->
                        /\ s_pc' = "done"
                        /\ s_videos' = <<>>
                        /\ s_out' = search_rest(<<>>, s_args, s_now)
                        /\ UNCHANGED <<yt_search, yt_fetch>>
                   [] r.status = "return" /\ r.val # <<>> ->
                        /\ s_pc' = "fetch_videos"
                        /\ yt_fetch' = fetch_videos_begin(r.val)
                        /\ UNCHANGED <<yt_search, s_videos, s_out>>
    /\ UNCHANGED <<s_args, s_now, yt_comments>>
    /\ UNCHANGED <<filterVars, rankerVars, matcherVars, termsVars, runVars,
                 configVars, guiVars,
                 callVars, hoverVars>>

\* videos.list answers: fetch_videos goes on to its next chunk, or raises
\* out of search, or returns and search filters, ranks and truncates
VideosListRequest ==
    /\ s_pc = "fetch_videos"
    /\ \E outcome \in VideosOutcomes(yt_fetch.chunks[yt_fetch.k]) :
          LET r == fetch_videos_step(yt_fetch, outcome)
          IN  /\ yt_log' = Append(yt_log, VideosRequest(yt_fetch, outcome))
              /\ CASE r.status = "more" ->
                        /\ yt_fetch' = r.loc
                        /\ UNCHANGED <<s_pc, s_videos, s_out>>
                   [] r.status = "raise" ->
                        /\ s_pc' = "raised"
                        /\ s_out' = Raise(r.exc)
                        /\ UNCHANGED <<yt_fetch, s_videos>>
                   [] r.status = "return" ->
                        /\ s_videos' = r.val
                        /\ s_out' = search_rest(r.val, s_args, s_now)
                        /\ s_pc' = IF s_out'.tag = "raise"
                                   THEN "raised" ELSE "done"
                        /\ UNCHANGED yt_fetch
    /\ UNCHANGED <<yt_search, s_args, s_now, yt_comments>>
    /\ UNCHANGED <<filterVars, rankerVars, matcherVars, termsVars, runVars,
                 configVars, guiVars,
                 callVars, hoverVars>>

----------------------------------------------------------------------------
(* services/comment_terms_service.py: run_on_videos *)

CommentTermsResult(video, total_term_hits, matched_comments, samples, per_term_unique_comments) ==
    [video |-> video, total_term_hits |-> total_term_hits,
     matched_comments |-> matched_comments, samples |-> samples,
     per_term_unique_comments |-> per_term_unique_comments]

TermsArgs(videos, terms, comments_per_video) ==
    [videos |-> videos, terms |-> terms,
     comments_per_video |-> comments_per_video]

Video1 == video_of_item(Catalog[1])
Video2 == video_of_item(Catalog[2])

VideoListPool ==
    {<<>>, <<Video1>>, <<Video1, Video2>>, <<Video2, Video1>>,
     <<Video1, Video1>>}

\* the queries: "a"; "a","B"; "a","a"; " a"; "aa"; the blank " "
TermQueryPool ==
    {TermQuery(<<<<"a">>>>, "any"),
     TermQuery(<<<<"a">>, <<"B">>>>, "any"),
     TermQuery(<<<<"a">>, <<"B">>>>, "all"),
     TermQuery(<<<<"a">>, <<"a">>>>, "any"),
     TermQuery(<<<<" ", "a">>>>, "any"),
     TermQuery(<<<<"a", "a">>>>, "any"),
     TermQuery(<<<<" ">>>>, "any")}

TermsArgsPool ==
    {TermsArgs(videos, tq, n) :
        videos \in VideoListPool, tq \in TermQueryPool,
        n \in {-1, 0, 1, 2, 4}}

\* a Counter as the function from its keys to their counts
EmptyCounter == [key \in {} |-> 0]

\* counter[key] += 1
increment(counter, key) ==
    IF key \in DOMAIN counter
    THEN [counter EXCEPT ![key] = @ + 1]
    ELSE counter @@ (key :> 1)

\* [t.strip() for t in terms.terms if t and t.strip()]
needle_terms(terms) ==
    LET kept == SelectSeq(terms, LAMBDA t : t # <<>> /\ Strip(t) # <<>>)
    IN  [i \in 1..Len(kept) |-> Strip(kept[i])]

\* the loop over the needle terms for one comment; tot = <<per_video_totals,
\* term_totals>>
RECURSIVE count_terms(_, _, _, _)
count_terms(tot, text_lc, needles, k) ==
    IF k > Len(needles) THEN tot
    ELSE LET t_lc == Lower(needles[k])
         IN  count_terms(IF t_lc # <<>> /\ Contains(text_lc, t_lc)
                         THEN <<increment(tot[1], needles[k]),
                                increment(tot[2], needles[k])>>
                         ELSE tot,
                         text_lc, needles, k + 1)

\* the loop over the comments of one video
RECURSIVE count_comments(_, _, _, _)
count_comments(tot, comments, needles, i) ==
    IF i > Len(comments) THEN tot
    ELSE count_comments(count_terms(tot, Lower(comments[i]), needles, 1),
                        comments, needles, i + 1)

analyse_video_always_emits(acc, v, comments, terms) ==
    LET tot == count_comments(<<EmptyCounter, acc[2]>>, comments,
                              needle_terms(terms.terms), 1)
        m == match(comments, terms)
    IN  <<Append(acc[1], CommentTermsResult(v, m[1], m[2], m[3], tot[1])),
          tot[2]>>

analyse_video_counts_matched_only(acc, v, comments, terms) ==
    LET counted == SelectSeq(comments,
                             LAMBDA c : match(<<c>>, terms)[2] > 0)
        tot == count_comments(<<EmptyCounter, acc[2]>>, counted,
                              needle_terms(terms.terms), 1)
        m == match(comments, terms)
    IN  IF m[2] > 0
        THEN <<Append(acc[1],
                      CommentTermsResult(v, m[1], m[2], m[3], tot[1])),
               tot[2]>>
        ELSE <<acc[1], tot[2]>>

\* the body of the loop over the videos, from the return of
\* fetch_comment_text on; acc = <<results, term_totals>>
analyse_video(acc, v, comments, terms) ==
    LET tot == count_comments(<<EmptyCounter, acc[2]>>, comments,
                              needle_terms(terms.terms), 1)
        m == match(comments, terms)
    IN  IF m[2] > 0
        THEN <<Append(acc[1],
                      CommentTermsResult(v, m[1], m[2], m[3], tot[1])),
               tot[2]>>
        ELSE <<acc[1], tot[2]>>

\* lambda r: (r.total_term_hits, r.matched_comments)
by_hits_and_matched(results) ==
    [r \in Range(results) |-> <<r.total_term_hits, r.matched_comments>>]

run_on_videos_return_unsorted(acc) == acc

\* results.sort(...); return results, dict(term_totals)
run_on_videos_return(acc) ==
    <<sorted_reverse(acc[1], by_hits_and_matched(acc[1])), acc[2]>>

\* run_on_videos when fetch_comment_text returns [] for every video
\* without a request
RECURSIVE analyse_without_comments(_, _, _, _)
analyse_without_comments(acc, videos, terms, i) ==
    IF i > Len(videos) THEN acc
    ELSE analyse_without_comments(
             analyse_video(acc, videos[i], <<>>, terms), videos, terms,
             i + 1)

TermsIdle ==
    /\ t_pc = "idle"
    /\ t_args = TermsArgs(<<>>, TermQuery(<<>>, "any"), 0)
    /\ t_i = 0
    /\ t_comments = <<>>
    /\ t_results = <<>>
    /\ t_term_totals = EmptyCounter
    /\ t_out = <<<<>>, EmptyCounter>>

\* run_on_videos has been called
TermsInit ==
    /\ t_pc = "called"
    /\ t_args \in TermsArgsPool
    /\ t_i = 0
    /\ t_comments = <<>>
    /\ t_results = <<>>
    /\ t_term_totals = EmptyCounter
    /\ t_out = <<<<>>, EmptyCounter>>
    /\ yt_log = <<>>
    /\ yt_search = SearchIdle
    /\ yt_fetch = FetchIdle
    /\ yt_comments = CommentsIdle

\* run_on_videos up to its first request.  Without a video, or with
\* comments_per_video < 1 (fetch_comment_text returns [] at once), it
\* issues none and runs to its end.
run_on_videos_start(args) ==
    /\ t_args' = args
    /\ IF \/ args.videos = <<>>
          \/ returns_without_request(args.comments_per_video)
       THEN LET acc == analyse_without_comments(
                           <<<<>>, EmptyCounter>>, args.videos,
                           args.terms, 1)
            IN  /\ t_pc' = "done"
                /\ t_i' = Len(args.videos)
                /\ t_comments' = [j \in 1..Len(args.videos) |-> <<>>]
                /\ t_results' = acc[1]
                /\ t_term_totals' = acc[2]
                /\ t_out' = run_on_videos_return(acc)
                /\ UNCHANGED yt_comments
       ELSE /\ t_pc' = "fetch_comment_text"
            /\ t_i' = 1
            /\ yt_comments' =
                   fetch_comment_text_begin(args.comments_per_video)
            /\ UNCHANGED <<t_comments, t_results, t_term_totals, t_out>>

RunOnVideosStart ==
    /\ t_pc = "called"
    /\ run_on_videos_start(t_args)
    /\ UNCHANGED <<yt_log, yt_search, yt_fetch>>
    /\ UNCHANGED <<filterVars, rankerVars, matcherVars, searchVars, runVars,
                 configVars, guiVars,
                 callVars, hoverVars>>

\* commentThreads.list answers: fetch_comment_text goes on to its next
\* page, or returns; then the video is analysed, and either the comments
\* of the next video are requested or run_on_videos sorts and returns
comment_threads_list_request ==
    /\ t_pc = "fetch_comment_text"
    /\ \E outcome \in CommentsOutcomes(yt_comments) :
          LET v == t_args.videos[t_i]
              r == fetch_comment_text_step(yt_comments, outcome)
          IN  /\ yt_log' = Append(yt_log,
                                   CommentsRequest(t_i, v.video_id,
                                                   yt_comments, outcome))
              /\ IF r.status = "more"
                 THEN /\ yt_comments' = r.loc
                      /\ UNCHANGED <<t_pc, t_i, t_comments, t_results,
                                     t_term_totals, t_out>>
                 ELSE LET acc == analyse_video(<<t_results, t_term_totals>>,
                                               v, r.val, t_args.terms)
                      IN  /\ t_comments' = Append(t_comments, r.val)
                          /\ t_results' = acc[1]
                          /\ t_term_totals' = acc[2]
                          /\ IF t_i < Len(t_args.videos)
                             THEN /\ t_i' = t_i + 1
                                  /\ yt_comments' =
                                         fetch_comment_text_begin(
                                             t_args.comments_per_video)
                                  /\ UNCHANGED <<t_pc, t_out>>
                             ELSE /\ t_pc' = "done"
                                  /\ t_out' = run_on_videos_return(acc)
                                  /\ yt_comments' = CommentsIdle
                                  /\ UNCHANGED t_i
    /\ UNCHANGED <<t_args, yt_search, yt_fetch>>

CommentThreadsListRequest ==
    /\ comment_threads_list_request
    /\ UNCHANGED <<filterVars, rankerVars, matcherVars, searchVars, runVars,
                 configVars, guiVars,
                 callVars, hoverVars>>

----------------------------------------------------------------------------
(* services/comment_terms_service.py: run *)

RunArgs(pages, per_page, top_videos, terms, comments_per_video) ==
    [pages |-> pages, per_page |-> per_page, top_videos |-> top_videos,
     terms |-> terms, comments_per_video |-> comments_per_video]

RunArgsPool ==
    {RunArgs(2, 2, top_videos, TermQuery(<<<<"a">>>>, "any"), 1) :
        top_videos \in {0, 1, 2}}

ranked_for_run_unsorted(videos, top_videos) ==
    take(videos, IF top_videos > 1 THEN top_videos ELSE 1)

\* ranked = sort(videos, sort_key="views"); ranked[: max(1, top_videos)]
ranked_for_run(videos, top_videos) ==
    take(sort(videos, Some(<<"v", "i", "e", "w", "s">>)),
         IF top_videos > 1 THEN top_videos ELSE 1)

RunIdle ==
    /\ run_pc = "idle"
    /\ run_args = RunArgs(1, 1, 1, TermQuery(<<>>, "any"), 0)
    /\ run_videos = <<>>
    /\ run_out = Ok(<<>>)

\* run has been called and is about to issue its first request
RunInit ==
    /\ run_pc = "search_video_ids"
    /\ run_args \in RunArgsPool
    /\ run_videos = <<>>
    /\ run_out = Ok(<<>>)
    /\ yt_log = <<>>
    /\ yt_search = search_video_ids_begin(run_args.pages, run_args.per_page)
    /\ yt_fetch = FetchIdle
    /\ yt_comments = CommentsIdle

\* run from the return of fetch_videos up to the first comment request:
\* rank by views, truncate, call run_on_videos
run_calls_run_on_videos(videos) ==
    /\ run_videos' = videos
    /\ run_on_videos_start(
           TermsArgs(ranked_for_run(videos, run_args.top_videos),
                     run_args.terms, run_args.comments_per_video))

\* run returns the results of run_on_videos when that has returned
run_returns ==
    /\ run_pc' = IF t_pc' = "done" THEN "done" ELSE "run_on_videos"
    /\ run_out' = IF t_pc' = "done" THEN Ok(t_out'[1]) ELSE run_out

\* search.list answers during run
RunSearchListRequest ==
    /\ run_pc = "search_video_ids"
    /\ \E outcome \in SearchOutcomes(yt_search.per_page) :
          LET r == search_video_ids_step(yt_search, outcome)
          IN  /\ yt_log' = Append(yt_log, SearchRequest(yt_search, outcome))
              /\ CASE r.status = "more" ->
                        /\ yt_search' = r.loc
                        /\ UNCHANGED <<yt_fetch, yt_comments, run_pc,
                                       run_videos, run_out, termsVars>>
                   [] r.status = "raise" ->
                        /\ run_pc' = "raised"
                        /\ run_out' = Raise(r.exc)
                        /\ UNCHANGED <<yt_search, yt_fetch, yt_comments,
                                       run_videos, termsVars>>
                   [] r.status = "return" /\ r.val = <<>> ->
                        /\ run_calls_run_on_videos(<<>>)
                        /\ run_returns
                        /\ UNCHANGED <<yt_search, yt_fetch>>
                   [] r.status = "return" /\ r.val # <<>> ->
                        /\ run_pc' = "fetch_videos"
                        /\ yt_fetch' = fetch_videos_begin(r.val)
                        /\ UNCHANGED <<yt_search, yt_comments, run_videos,
                                       run_out, termsVars>>
    /\ UNCHANGED run_args
    /\ UNCHANGED <<filterVars, rankerVars, matcherVars, searchVars,
                   configVars, guiVars,
                   callVars, hoverVars>>

\* videos.list answers during run
RunVideosListRequest ==
    /\ run_pc = "fetch_videos"
    /\ \E outcome \in VideosOutcomes(yt_fetch.chunks[yt_fetch.k]) :
          LET r == fetch_videos_step(yt_fetch, outcome)
          IN  /\ yt_log' = Append(yt_log, VideosRequest(yt_fetch, outcome))
              /\ CASE r.status = "more" ->
                        /\ yt_fetch' = r.loc
                        /\ UNCHANGED <<yt_comments, run_pc, run_videos,
                                       run_out, termsVars>>
                   [] r.status = "raise" ->
                        /\ run_pc' = "raised"
                        /\ run_out' = Raise(r.exc)
                        /\ UNCHANGED <<yt_fetch, yt_comments, run_videos,
                                       termsVars>>
                   [] r.status = "return" ->
                        /\ run_calls_run_on_videos(r.val)
                        /\ run_returns
                        /\ UNCHANGED yt_fetch
    /\ UNCHANGED <<yt_search, run_args>>
    /\ UNCHANGED <<filterVars, rankerVars, matcherVars, searchVars,
                   configVars, guiVars,
                   callVars, hoverVars>>

\* commentThreads.list answers during run
RunCommentThreadsListRequest ==
    /\ run_pc = "run_on_videos"
    /\ comment_threads_list_request
    /\ run_returns
    /\ UNCHANGED <<run_args, run_videos>>
    /\ UNCHANGED <<filterVars, rankerVars, matcherVars, searchVars,
                   configVars, guiVars,
                   callVars, hoverVars>>

----------------------------------------------------------------------------
(* config.py: get_api_key *)

_KEY_NAME ==
    <<"Y", "O", "U", "T", "U", "B", "E", "_", "A", "P", "I", "_", "K", "E",
      "Y">>

\* s.strip(chars)
strip_chars(s, chars) ==
    LET keep == {i \in 1..Len(s) : s[i] \notin chars}
    IN  IF keep = {} THEN <<>>
        ELSE SubSeq(s, CHOOSE i \in keep : \A j \in keep : i <= j,
                       CHOOSE i \in keep : \A j \in keep : i >= j)

\* line.split("=", 1) of a line that holds "="
split_once(line) ==
    LET at == CHOOSE i \in DOMAIN line :
                  line[i] = "=" /\ \A j \in 1..(i - 1) : line[j] # "="
    IN  <<SubSeq(line, 1, at - 1), SubSeq(line, at + 1, Len(line))>>

\* os.environ.setdefault(k, v)
setdefault(environ, k, v) ==
    IF k \in DOMAIN environ THEN environ ELSE environ @@ (k :> v)

\* os.getenv(name): None when the variable is not set
getenv(environ, name) ==
    IF name \in DOMAIN environ THEN Some(environ[name]) ELSE None

\* the loop of _load_env_file over the lines of the file
RECURSIVE load_lines(_, _, _)
load_lines(environ, lines, i) ==
    IF i > Len(lines) THEN environ
    ELSE LET line == Strip(lines[i])
         IN  IF line = <<>> \/ line[1] = "#" \/ ~Contains(line, <<"=">>)
             THEN load_lines(environ, lines, i + 1)
             ELSE LET kv == split_once(line)
                      k == Strip(kv[1])
                      v == strip_chars(strip_chars(Strip(kv[2]), {"\""}),
                                       {"'"})
                  IN  IF k = <<>> THEN load_lines(environ, lines, i + 1)
                      ELSE load_lines(setdefault(environ, k, v), lines,
                                      i + 1)

\* a file of the disk: whether it exists, whether read_text succeeds, and
\* its lines
File(exists, readable, lines) ==
    [exists |-> exists, readable |-> readable, lines |-> lines]

\* _load_env_file: a failing read leaves os.environ as it is
_load_env_file(environ, file) ==
    IF ~file.readable THEN environ ELSE load_lines(environ, file.lines, 1)

_load_dotenv_if_present(environ, dotenv) ==
    IF ~dotenv.exists THEN environ ELSE _load_env_file(environ, dotenv)

_load_user_config_if_present(environ, user) ==
    IF ~user.exists THEN environ ELSE _load_env_file(environ, user)

\* get_api_key: its outcome and os.environ as it leaves it
get_api_key(environ, dotenv, user) ==
    LET key1 == getenv(environ, _KEY_NAME)
        env2 == _load_dotenv_if_present(environ, dotenv)
        key2 == getenv(env2, _KEY_NAME)
        env3 == _load_user_config_if_present(env2, user)
        key3 == getenv(env3, _KEY_NAME)
    IN  IF key1 # None /\ key1[1] # <<>>
        THEN [out |-> Ok(key1[1]), environ |-> environ]
        ELSE IF key2 # None /\ key2[1] # <<>>
        THEN [out |-> Ok(key2[1]), environ |-> env2]
        ELSE IF key3 # None /\ key3[1] # <<>>
        THEN [out |-> Ok(key3[1]), environ |-> env3]
        ELSE [out |-> Raise("RuntimeError"), environ |-> env3]

\* os.environ at the call: the variable not set, set to the empty string,
\* set to "e"
EnvironPool ==
    {[name \in {} |-> <<>>], (_KEY_NAME :> <<>>), (_KEY_NAME :> <<"e">>)}

\* the files: absent; unreadable; the key set to v; the key set to the
\* empty string; a comment and a padded, quoted assignment; another
\* variable before the key; a line without "="; a line without a name;
\* an empty assignment before a non-empty one
FilePool(v) ==
    {File(FALSE, FALSE, <<>>),
     File(TRUE, FALSE, <<>>),
     File(TRUE, TRUE, <<_KEY_NAME \o <<"=">> \o v>>),
     File(TRUE, TRUE, <<_KEY_NAME \o <<"=">>>>),
     File(TRUE, TRUE,
          <<<<"#">> \o _KEY_NAME \o <<"=", "x">>,
            <<" ">> \o _KEY_NAME \o <<" ", "=", " ", "\"">> \o v
                \o <<"\"", " ">>>>),
     File(TRUE, TRUE, <<<<"X", "=", "x">>, _KEY_NAME \o <<"=">> \o v>>),
     File(TRUE, TRUE, <<_KEY_NAME>>),
     File(TRUE, TRUE, <<<<"=">> \o v>>),
     File(TRUE, TRUE,
          <<_KEY_NAME \o <<"=">>, _KEY_NAME \o <<"=">> \o v>>)}

ConfigIdle ==
    /\ cfg_pc = "idle"
    /\ cfg_environ = [name \in {} |-> <<>>]
    /\ cfg_dotenv = File(FALSE, FALSE, <<>>)
    /\ cfg_user = File(FALSE, FALSE, <<>>)
    /\ cfg_out = Ok(<<>>)

\* get_api_key has been called
ConfigInit ==
    /\ cfg_pc = "called"
    /\ cfg_environ \in EnvironPool
    /\ cfg_dotenv \in FilePool(<<"d">>)
    /\ cfg_user \in FilePool(<<"u">>)
    /\ cfg_out = Ok(<<>>)

GetApiKey ==
    /\ cfg_pc = "called"
    /\ LET r == get_api_key(cfg_environ, cfg_dotenv, cfg_user)
       IN  /\ cfg_out' = r.out
           /\ cfg_environ' = r.environ
    /\ cfg_pc' = "done"
    /\ UNCHANGED <<cfg_dotenv, cfg_user>>
    /\ UNCHANGED <<filterVars, rankerVars, matcherVars, clientVars,
                   searchVars, termsVars, runVars, guiVars,
                   callVars, hoverVars>>

----------------------------------------------------------------------------
(* gui/app.py: UnifiedParamsFrame and YTRadarApp.  The model keeps the    *)
(* entries, the worker threads, the result queue and what _poll_queue     *)
(* writes; the term totals table, the samples box and the numeric entries *)
(* (left at their initial values) are not modelled, and a table row keeps *)
(* its numbers as numbers.                                                *)

\* most clicks on "Run Query Only" and "Run Full Analysis" in a behaviour
MaxClicks == 2

\* texts the user types into the Query entry: " ", "q"
QueryTexts == {<<" ">>, <<"q">>}

\* texts the user types into the Terms entry: "", ",", "a"
TermsTexts == {<<>>, <<",">>, <<"a">>}

\* s.split(sep): acc holds the pieces before position i, the last of them
\* still growing
RECURSIVE split_from(_, _, _, _)
split_from(s, sep, i, acc) ==
    IF i > Len(s) THEN acc
    ELSE IF s[i] = sep THEN split_from(s, sep, i + 1, Append(acc, <<>>))
    ELSE split_from(s, sep, i + 1,
                    [acc EXCEPT ![Len(acc)] = Append(@, s[i])])

split(s, sep) == split_from(s, sep, 1, <<<<>>>>)

\* UnifiedParamsFrame.collect_params, of the entries query and terms
collect_params(query_var, terms_var) ==
    [query |-> Strip(query_var), pages |-> 3, per_page |-> 50, top |-> 5,
     sort |-> <<"v", "i", "e", "w", "s">>, min_views |-> 0,
     min_comments |-> 0, since_days |-> None, terms |-> Strip(terms_var),
     match |-> "any", top_videos |-> 10, comments_per_video |-> 200]

_get_filters(params) ==
    Filters(params.min_views, params.min_comments, params.since_days)

\* tuple(t.strip() for t in params["terms"].split(",") if t.strip())
_make_term_query(params) ==
    LET pieces == split(params.terms, ",")
        kept == SelectSeq(pieces, LAMBDA t : Strip(t) # <<>>)
    IN  TermQuery([i \in 1..Len(kept) |-> Strip(kept[i])], params.match)

\* the payload _run_search_only hands to SearchService.search
search_payload(params) ==
    [query |-> params.query, pages |-> params.pages,
     per_page |-> params.per_page, top |-> params.top, sort |-> params.sort,
     filters |-> _get_filters(params)]

\* What the API gives a worker: the videos fetch_videos returns to search,
\* the comments fetch_comment_text returns for a video, and the clock.
GuiFetchedPool == {<<>>, <<Video2, Video1>>}
GuiCommentsPool == {<<>>, <<TextA>>}
GuiNow == 100

\* the outcomes of SearchService.search(**payload) in a worker
search_outcomes(payload) ==
    {Raise("HttpError")} \cup
    {search_rest(fetched,
                 SearchArgs(payload.pages, payload.per_page, payload.top,
                            Some(payload.sort), Some(payload.filters)),
                 GuiNow) : fetched \in GuiFetchedPool}

\* run_on_videos on videos whose fetched comments are given
RECURSIVE analyse_videos(_, _, _, _, _)
analyse_videos(acc, videos, comments, terms, i) ==
    IF i > Len(videos) THEN run_on_videos_return(acc)
    ELSE analyse_videos(analyse_video(acc, videos[i], comments[i], terms),
                        videos, comments, terms, i + 1)

\* the outcomes of combined_worker()
combined_outcomes(params) ==
    LET searched == search_outcomes(search_payload(params))
        picked(videos) ==
            take(videos,
                 IF Min(params.top_videos, Len(videos)) > 1
                 THEN Min(params.top_videos, Len(videos)) ELSE 1)
    IN  {o \in searched : o.tag = "raise"} \cup
        UNION {{Ok(<<o.val>> \o
                   analyse_videos(<<<<>>, EmptyCounter>>, picked(o.val),
                                  comments, _make_term_query(params), 1)) :
                   comments \in [1..Len(picked(o.val)) -> GuiCommentsPool]} :
               o \in {x \in searched : x.tag = "ok"}}

\* a started worker thread: the task, what its closure holds, and whether
\* it has put its message
Thread(task_name, payload) ==
    [task_name |-> task_name, payload |-> payload, state |-> "running"]

WorkerOutcomes(thread) ==
    IF thread.task_name = "search_only"
    THEN search_outcomes(thread.payload)
    ELSE combined_outcomes(thread.payload)

\* self._q.put(("ok", task_name, result)) / (("err", task_name, str(e)))
Message(task_name, outcome) ==
    IF outcome.tag = "ok"
    THEN [status |-> "ok", task_name |-> task_name, data |-> outcome.val]
    ELSE [status |-> "err", task_name |-> task_name, data |-> outcome.exc]

\* a row of the results table; hits and matched_comments are "" in a row
\* of a search
_render_search_as_stable(videos) ==
    [i \in 1..Len(videos) |->
        [hits |-> None, matched_comments |-> None,
         views |-> videos[i].view_count,
         comments |-> videos[i].comment_count,
         url |-> videos[i].video_id]]

_render_comment_results_as_stable(results) ==
    [i \in 1..Len(results) |->
        [hits |-> Some(results[i].total_term_hits),
         matched_comments |-> Some(results[i].matched_comments),
         views |-> results[i].video.view_count,
         comments |-> results[i].video.comment_count,
         url |-> results[i].video.video_id]]

\* {r.video.video_id: r for r in results}
analysis_by_video_id(results) ==
    [id \in {results[i].video.video_id : i \in DOMAIN results} |->
        LET last == CHOOSE i \in DOMAIN results :
                        /\ results[i].video.video_id = id
                        /\ \A j \in DOMAIN results :
                              results[j].video.video_id = id => j <= i
        IN  results[last]]

\* what _poll_queue reads and writes
Ui(status, dialogs, videos, combined_results, by_video_id, totals, tree) ==
    [status |-> status, dialogs |-> dialogs, videos |-> videos,
     combined_results |-> combined_results,
     analysis_by_video_id |-> by_video_id,
     last_term_totals |-> totals, tree |-> tree]

poll_message_clearing(ui, msg) ==
    IF msg.status # "ok"
    THEN Ui("Error.", increment(ui.dialogs, "showerror"), <<>>, <<>>,
            EmptyCounter, EmptyCounter, <<>>)
    ELSE IF msg.task_name = "search_only"
    THEN Ui("Search complete.", ui.dialogs, msg.data, <<>>, EmptyCounter,
            EmptyCounter, _render_search_as_stable(msg.data))
    ELSE IF msg.task_name = "combined"
    THEN Ui("Analysis complete.", ui.dialogs, msg.data[1], msg.data[2],
            analysis_by_video_id(msg.data[2]), msg.data[3],
            _render_comment_results_as_stable(msg.data[2]))
    ELSE ui

poll_message_keeping_analysis(ui, msg) ==
    IF msg.status # "ok"
    THEN [ui EXCEPT !.status = "Error.",
                    !.dialogs = increment(@, "showerror")]
    ELSE IF msg.task_name = "search_only"
    THEN Ui("Search complete.", ui.dialogs, msg.data, <<>>,
            ui.analysis_by_video_id, EmptyCounter,
            _render_search_as_stable(msg.data))
    ELSE IF msg.task_name = "combined"
    THEN Ui("Analysis complete.", ui.dialogs, msg.data[1], msg.data[2],
            analysis_by_video_id(msg.data[2]), msg.data[3],
            _render_comment_results_as_stable(msg.data[2]))
    ELSE ui

\* one pass of the loop of _poll_queue, on the message it took
poll_message(ui, msg) ==
    IF msg.status # "ok"
    THEN [ui EXCEPT !.status = "Error.",
                    !.dialogs = increment(@, "showerror")]
    ELSE IF msg.task_name = "search_only"
    THEN Ui("Search complete.", ui.dialogs, msg.data, <<>>, EmptyCounter,
            EmptyCounter, _render_search_as_stable(msg.data))
    ELSE IF msg.task_name = "combined"
    THEN Ui("Analysis complete.", ui.dialogs, msg.data[1], msg.data[2],
            analysis_by_video_id(msg.data[2]), msg.data[3],
            _render_comment_results_as_stable(msg.data[2]))
    ELSE ui

poll_loop_first_only(ui, q, i) ==
    IF q = <<>> THEN ui ELSE poll_message(ui, q[1])

\* the loop of _poll_queue, until get_nowait raises Empty
RECURSIVE poll_loop(_, _, _)
poll_loop(ui, q, i) ==
    IF i > Len(q) THEN ui ELSE poll_loop(poll_message(ui, q[i]), q, i + 1)

GuiIdle ==
    /\ g_query_var = <<>>
    /\ g_terms_var = <<>>
    /\ g_threads = <<>>
    /\ g_q = <<>>
    /\ g_status = "Ready"
    /\ g_dialogs = EmptyCounter
    /\ g_videos = <<>>
    /\ g_combined_results = <<>>
    /\ g_analysis_by_video_id = EmptyCounter
    /\ g_last_term_totals = EmptyCounter
    /\ g_tree = <<>>
    /\ g_export = None

otherThanGuiVars ==
    <<filterVars, rankerVars, matcherVars, clientVars, searchVars, termsVars,
      runVars, configVars, callVars, hoverVars>>

\* the user edits the Query entry
EditQuery ==
    /\ \E text \in QueryTexts : g_query_var' = text
    /\ UNCHANGED <<g_terms_var, g_threads, g_q, g_status, g_dialogs,
                   displayVars, g_export, otherThanGuiVars>>

\* the user edits the Terms entry
EditTerms ==
    /\ \E text \in TermsTexts : g_terms_var' = text
    /\ UNCHANGED <<g_query_var, g_threads, g_q, g_status, g_dialogs,
                   displayVars, g_export, otherThanGuiVars>>

Clicks ==
    Len(g_threads)
    + (IF "showwarning" \in DOMAIN g_dialogs THEN g_dialogs["showwarning"]
       ELSE 0)

_base_validate == Strip(g_query_var) # <<>>

_terms_validate == Strip(g_terms_var) # <<>>

\* "Run Query Only": UnifiedParamsFrame._run_search, then
\* YTRadarApp._run_search_only and _run_in_thread
RunSearchClick ==
    /\ Clicks < MaxClicks
    /\ IF ~_base_validate
       THEN /\ g_dialogs' = increment(g_dialogs, "showwarning")
            /\ UNCHANGED <<g_threads, g_status>>
       ELSE LET params == collect_params(g_query_var, g_terms_var)
            IN  /\ g_status' = "Running search_only..."
                /\ g_threads' = Append(g_threads,
                                        Thread("search_only",
                                               search_payload(params)))
                /\ UNCHANGED g_dialogs
    /\ UNCHANGED <<g_query_var, g_terms_var, g_q, displayVars,
                   g_export, otherThanGuiVars>>

\* "Run Full Analysis": UnifiedParamsFrame._run_combined, then
\* YTRadarApp._run_combined
RunCombinedClick ==
    /\ Clicks < MaxClicks
    /\ IF ~_base_validate \/ ~_terms_validate
       THEN /\ g_dialogs' = increment(g_dialogs, "showwarning")
            /\ UNCHANGED <<g_threads, g_status>>
       ELSE LET params == collect_params(g_query_var, g_terms_var)
            IN  /\ g_status' = "Running analysis..."
                /\ g_threads' = Append(g_threads,
                                        Thread("combined", params))
                /\ UNCHANGED g_dialogs
    /\ UNCHANGED <<g_query_var, g_terms_var, g_q, displayVars,
                   g_export, otherThanGuiVars>>

\* a worker thread gets the outcome of its service call and puts its
\* message on the queue
WorkerPuts ==
    /\ \E i \in DOMAIN g_threads :
          /\ g_threads[i].state = "running"
          /\ \E outcome \in WorkerOutcomes(g_threads[i]) :
                g_q' = Append(g_q, Message(g_threads[i].task_name, outcome))
          /\ g_threads' = [g_threads EXCEPT ![i].state = "finished"]
    /\ UNCHANGED <<g_query_var, g_terms_var, g_status, g_dialogs,
                   displayVars, g_export, otherThanGuiVars>>

\* _poll_queue, run every 100 ms by the UI thread: it takes every message
\* of the queue
PollQueue ==
    /\ LET ui == poll_loop(Ui(g_status, g_dialogs, g_videos,
                              g_combined_results, g_analysis_by_video_id,
                              g_last_term_totals, g_tree),
                           g_q, 1)
       IN  /\ g_status' = ui.status
           /\ g_dialogs' = ui.dialogs
           /\ g_videos' = ui.videos
           /\ g_combined_results' = ui.combined_results
           /\ g_analysis_by_video_id' = ui.analysis_by_video_id
           /\ g_last_term_totals' = ui.last_term_totals
           /\ g_tree' = ui.tree
    /\ g_q' = <<>>
    /\ UNCHANGED <<g_query_var, g_terms_var, g_threads, g_export,
                   otherThanGuiVars>>

\* the payload _export_search_json builds; an object without the key
\* comment_analysis has None for it, and url stands for the watch URL of
\* the identifier
export_payload(videos, by_video_id) ==
    [i \in 1..Len(videos) |->
        [video_id |-> videos[i].video_id,
         published_at |-> videos[i].published_at,
         view_count |-> videos[i].view_count,
         comment_count |-> videos[i].comment_count,
         url |-> videos[i].video_id,
         comment_analysis |->
            IF videos[i].video_id \in DOMAIN by_video_id
            THEN LET r == by_video_id[videos[i].video_id]
                 IN  Some([term_hits |-> r.total_term_hits,
                           matched_comments |-> r.matched_comments,
                           samples |-> r.samples])
            ELSE None]]

\* "Export JSON": _export_search_json, followed up to the first file
\* written or the first "No Results"; path is what the file dialog
\* returns, None when the user cancels it
ExportJson ==
    /\ g_export = None
    /\ "showinfo" \notin DOMAIN g_dialogs
    /\ IF g_videos = <<>>
       THEN /\ g_dialogs' = increment(g_dialogs, "showinfo")
            /\ UNCHANGED g_export
       ELSE \E path \in {None, Some("results.json")} :
               IF path = None
               THEN UNCHANGED <<g_export, g_dialogs>>
               ELSE /\ g_export' =
                        Some(export_payload(g_videos,
                                            g_analysis_by_video_id))
                    /\ g_dialogs' = increment(g_dialogs, "showinfo")
    /\ UNCHANGED <<g_query_var, g_terms_var, g_threads, g_q, g_status,
                   displayVars, otherThanGuiVars>>

----------------------------------------------------------------------------
(* gui/app.py: ThumbnailHover *)

\* The rows of the table and the video id that get_video_id_from_row
\* finds in the URL of each: rows 1 and 4 show video 1, row 2 shows
\* video 2, and the URL of row 3 holds no video id.
RowVideo == <<Some(1), Some(2), None, Some(1)>>

\* an event position: over a row, or over no row
RowPool == {None} \cup {Some(row) : row \in DOMAIN RowVideo}

\* the label of the tooltip: its text and its image, a PhotoImage being
\* named by the video whose thumbnail it holds
Label(text, image) == [text |-> text, image |-> image]

\* a download thread: "downloading", or done with its callback handed to
\* root.after(0, ...): "on_main", "on_main_fail"
Download(vid, state) == [vid |-> vid, state |-> state]

RemoveAt(s, i) == SubSeq(s, 1, i - 1) \o SubSeq(s, i + 1, Len(s))

HoverIdle ==
    /\ h_mouse = None
    /\ h_current_row = None
    /\ h_after_id = None
    /\ h_tip = None
    /\ h_cache = EmptyCounter
    /\ h_pending = {}
    /\ h_workers = <<>>
    /\ h_failed = {}

otherThanHoverVars ==
    <<filterVars, rankerVars, matcherVars, clientVars, searchVars, termsVars,
      runVars, configVars, guiVars, callVars>>

\* _on_motion: the mouse moves to a position over row, or over no row
OnMotion ==
    /\ \E row \in RowPool :
          /\ h_mouse' = row
          /\ IF row # h_current_row
             THEN /\ h_current_row' = row
                  /\ h_tip' = None
                  /\ h_after_id' = row
             ELSE UNCHANGED <<h_current_row, h_tip, h_after_id>>
    /\ UNCHANGED <<h_cache, h_pending, h_workers, h_failed,
                   otherThanHoverVars>>

\* _on_leave, bound to <Leave>: the mouse leaves the table
OnLeave ==
    /\ h_mouse' = None
    /\ h_current_row' = None
    /\ h_after_id' = None
    /\ h_tip' = None
    /\ UNCHANGED <<h_cache, h_pending, h_workers, h_failed,
                   otherThanHoverVars>>

\* _on_leave, bound to <ButtonPress>: a click, the mouse staying where
\* it is
OnButtonPress ==
    /\ h_current_row' = None
    /\ h_after_id' = None
    /\ h_tip' = None
    /\ UNCHANGED <<h_mouse, h_cache, h_pending, h_workers, h_failed,
                   otherThanHoverVars>>

\* the tooltip as _show_for_row leaves it when it starts no download
shown_label(tip, cache, pending, vid) ==
    IF vid \in DOMAIN cache THEN Some(Label("", Some(cache[vid])))
    ELSE IF tip = None THEN Some(Label("Loading", None))
    ELSE tip

starts_download_while_pending(vid, cache, pending) ==
    vid \notin DOMAIN cache

\* _show_for_row goes on to start a worker: neither "if vid in
\* self._cache" nor "if vid in self._pending" returns
starts_download(vid, cache, pending) ==
    vid \notin DOMAIN cache /\ vid \notin pending

\* the timer of after(350, ...) fires: _show_for_row(row)
ShowForRow ==
    /\ h_after_id # None
    /\ h_after_id' = None
    /\ LET vid == RowVideo[h_after_id[1]]
       IN  IF vid = None
           THEN UNCHANGED <<h_tip, h_pending, h_workers>>
           ELSE IF ~starts_download(vid[1], h_cache, h_pending)
           THEN /\ h_tip' = shown_label(h_tip, h_cache, h_pending, vid[1])
                /\ UNCHANGED <<h_pending, h_workers>>
           ELSE /\ h_pending' = h_pending \cup {vid[1]}
                /\ h_tip' = Some(Label("Loading", None))
                /\ h_workers' =
                       Append(h_workers, Download(vid[1], "downloading"))
    /\ UNCHANGED <<h_mouse, h_current_row, h_cache, h_failed,
                   otherThanHoverVars>>

\* a worker ends its download, with the image or with an exception, and
\* hands its callback to root.after(0, ...)
DownloadEnds ==
    /\ \E i \in DOMAIN h_workers :
          /\ h_workers[i].state = "downloading"
          /\ \E state \in {"on_main", "on_main_fail"} :
                h_workers' = [h_workers EXCEPT ![i].state = state]
    /\ UNCHANGED <<h_mouse, h_current_row, h_after_id, h_tip, h_cache,
                   h_pending, h_failed, otherThanHoverVars>>

\* on_main of a worker runs on the UI thread
OnMain ==
    /\ \E i \in DOMAIN h_workers :
          LET vid == h_workers[i].vid
          IN  /\ h_workers[i].state = "on_main"
              /\ h_cache' = (vid :> vid) @@ h_cache
              /\ h_pending' = h_pending \ {vid}
              /\ h_tip' = IF h_tip # None THEN Some(Label("", Some(vid)))
                          ELSE h_tip
              /\ h_workers' = RemoveAt(h_workers, i)
    /\ UNCHANGED <<h_mouse, h_current_row, h_after_id, h_failed,
                   otherThanHoverVars>>

\* on_main_fail of a worker runs on the UI thread
OnMainFail ==
    /\ \E i \in DOMAIN h_workers :
          LET vid == h_workers[i].vid
          IN  /\ h_workers[i].state = "on_main_fail"
              /\ h_pending' = h_pending \ {vid}
              /\ h_tip' = IF h_tip # None
                          THEN Some(Label("(thumbnail unavailable)", None))
                          ELSE h_tip
              /\ h_failed' = h_failed \cup {vid}
              /\ h_workers' = RemoveAt(h_workers, i)
    /\ UNCHANGED <<h_mouse, h_current_row, h_after_id, h_cache,
                   otherThanHoverVars>>

----------------------------------------------------------------------------
(* Specifications *)

\* VideoFilter.apply on every input of the bounds
InitFilter ==
    FilterInit /\ RankerIdle /\ MatcherIdle /\ ClientIdle /\ ServiceIdle
    /\ TermsIdle /\ RunIdle /\ ConfigIdle /\ GuiIdle /\ CallIdle /\ HoverIdle
SpecFilter == InitFilter /\ [][ApplyFilter]_vars

\* Ranker.sort on every input of the bounds
InitRanker ==
    RankerInit /\ FilterIdle /\ MatcherIdle /\ ClientIdle /\ ServiceIdle
    /\ TermsIdle /\ RunIdle /\ ConfigIdle /\ GuiIdle /\ CallIdle /\ HoverIdle
SpecRanker == InitRanker /\ [][SortVideos]_vars

\* TermMatcher.match on every input of the bounds
InitMatcher ==
    MatcherInit /\ FilterIdle /\ RankerIdle /\ ClientIdle /\ ServiceIdle
    /\ TermsIdle /\ RunIdle /\ ConfigIdle /\ GuiIdle /\ CallIdle /\ HoverIdle
SpecMatcher == InitMatcher /\ [][MatchComments]_vars

\* SearchService.search with every argument of the pool, against every
\* behaviour of the API within the pools
InitSearch ==
    ServiceInit /\ FilterIdle /\ RankerIdle /\ MatcherIdle /\ TermsIdle
    /\ RunIdle /\ ConfigIdle /\ GuiIdle /\ CallIdle /\ HoverIdle
NextSearch == SearchListRequest \/ VideosListRequest
SpecSearch == InitSearch /\ [][NextSearch]_vars

\* CommentTermsService.run_on_videos with every argument of the pool,
\* against every behaviour of the API within the pools
InitTerms ==
    TermsInit /\ FilterIdle /\ RankerIdle /\ MatcherIdle /\ ServiceIdle
    /\ RunIdle /\ ConfigIdle /\ GuiIdle /\ CallIdle /\ HoverIdle
NextTerms == RunOnVideosStart \/ CommentThreadsListRequest
SpecTerms == InitTerms /\ [][NextTerms]_vars

\* CommentTermsService.run with every argument of the pool, against every
\* behaviour of the API within the pools
InitRun ==
    RunInit /\ FilterIdle /\ RankerIdle /\ MatcherIdle /\ ServiceIdle
    /\ TermsIdle /\ ConfigIdle /\ GuiIdle /\ CallIdle /\ HoverIdle
NextRun ==
    RunSearchListRequest \/ RunVideosListRequest
    \/ RunCommentThreadsListRequest
SpecRun == InitRun /\ [][NextRun]_vars

\* get_api_key on every environment and pair of files of the pools
\* fetch_videos on identifier lists shorter and longer than a batch
InitFetchVideos ==
    FetchVideosInit /\ HoverIdle /\ GuiIdle /\ FilterIdle /\ RankerIdle
    /\ MatcherIdle /\ ClientIdle /\ ServiceIdle /\ TermsIdle /\ RunIdle
    /\ ConfigIdle
NextFetchVideos == FetchVideosBegin \/ FetchVideosRequest
SpecFetchVideos == InitFetchVideos /\ [][NextFetchVideos]_vars

\* fetch_comment_text against a listing of any length; a request that
\* is issued is answered, and the loop goes on while it can
InitFetchCommentText ==
    FetchCommentTextInit /\ HoverIdle /\ GuiIdle /\ FilterIdle
    /\ RankerIdle /\ MatcherIdle /\ ClientIdle /\ ServiceIdle /\ TermsIdle
    /\ RunIdle /\ ConfigIdle
NextFetchCommentText == FetchCommentTextBegin \/ FetchCommentTextRequest
SpecFetchCommentText ==
    InitFetchCommentText /\ [][NextFetchCommentText]_vars
FairFetchCommentText ==
    SpecFetchCommentText /\ WF_vars(NextFetchCommentText)

\* the hover tooltip over a table of four rows
InitHover ==
    HoverIdle /\ CallIdle /\ GuiIdle /\ FilterIdle /\ RankerIdle
    /\ MatcherIdle /\ ClientIdle /\ ServiceIdle /\ TermsIdle /\ RunIdle
    /\ ConfigIdle
NextHover ==
    OnMotion \/ OnLeave \/ OnButtonPress \/ ShowForRow \/ DownloadEnds
    \/ OnMain \/ OnMainFail
SpecHover == InitHover /\ [][NextHover]_vars

InitConfig ==
    ConfigInit /\ FilterIdle /\ RankerIdle /\ MatcherIdle /\ ClientIdle
    /\ ServiceIdle /\ TermsIdle /\ RunIdle /\ GuiIdle /\ CallIdle /\ HoverIdle
SpecConfig == InitConfig /\ [][GetApiKey]_vars

\* the window after its construction, under every sequence of edits,
\* clicks, worker completions and polls within the bounds
InitGui ==
    GuiIdle /\ CallIdle /\ HoverIdle /\ FilterIdle /\ RankerIdle /\ MatcherIdle /\ ClientIdle
    /\ ServiceIdle /\ TermsIdle /\ RunIdle /\ ConfigIdle
NextGui ==
    EditQuery \/ EditTerms \/ RunSearchClick \/ RunCombinedClick
    \/ WorkerPuts \/ PollQueue
SpecGui == InitGui /\ [][NextGui]_vars

----------------------------------------------------------------------------
(* Claims about VideoFilter.apply, checked under SpecFilter *)

WellFormedUTC(v) == v.published_at.form \in {"Z", "offset"}

\* the three thresholds, as the specification states them
PassesThresholds(v, f, now) ==
    /\ v.view_count >= f.min_views
    /\ v.comment_count >= f.min_comments
    /\ \/ f.since_days = None
       \/ v.published_at.day >=
              now - (IF f.since_days[1] > 0 THEN f.since_days[1] ELSE 0)

PassingVideos(videos, f, now) ==
    SelectSeq(videos, LAMBDA v : PassesThresholds(v, f, now))

\* C1: on videos with well-formed UTC timestamps, apply returns exactly the
\* sub-sequence of its input, in input order, of the videos that meet the
\* views, comments and recency thresholds (negative since_days read as 0).
C1_ApplyIsThePassingSubsequence ==
    (f_pc = "done" /\ \A i \in DOMAIN f_videos : WellFormedUTC(f_videos[i]))
        => /\ f_out.tag = "ok"
           /\ f_out.val = PassingVideos(f_videos, f_filters, f_now)

\* a call with a negative since_days that keeps one video and drops another
C1_Witness ==
    /\ f_pc = "done"
    /\ \A i \in DOMAIN f_videos : WellFormedUTC(f_videos[i])
    /\ f_filters.since_days = Some(-1)
    /\ f_out.tag = "ok"
    /\ Len(f_out.val) >= 1
    /\ Len(f_out.val) < Len(f_videos)

\* C2: with a recency bound set, apply returns normally, no video with a
\* malformed timestamp (empty, unparsable, or without a UTC offset) is in
\* the output, and the other videos are filtered as usual.
C2_MalformedTimestampIsExcludedNotRaised ==
    (f_pc = "done" /\ f_filters.since_days # None)
        => /\ f_out.tag = "ok"
           /\ f_out.val =
                  PassingVideos(SelectSeq(f_videos, WellFormedUTC),
                                f_filters, f_now)

----------------------------------------------------------------------------
(* Claims about Ranker.sort, checked under SpecRanker *)

COMMENTS == <<"c", "o", "m", "m", "e", "n", "t", "s">>

\* the field the key selects: comment_count for a key that reads
\* "comments" once trimmed and lowercased, view_count for every other key
SelectedField(sort_key) ==
    IF sort_key # None /\ Lower(Strip(sort_key[1])) = COMMENTS
    THEN "comment_count" ELSE "view_count"

\* out is items rearranged by a permutation that puts greater values of the
\* field first and keeps items of equal value in their order in items
IsStableDescending(out, items, field) ==
    /\ Len(out) = Len(items)
    /\ \E p \in Permutations(DOMAIN items) :
          /\ \A i \in DOMAIN out : out[i] = items[p[i]]
          /\ \A i, j \in DOMAIN out :
                i < j => \/ out[i][field] > out[j][field]
                         \/ /\ out[i][field] = out[j][field]
                            /\ p[i] < p[j]

\* C3: sort returns a permutation of its input, non-increasing in
\* comment_count for the key "comments" and in view_count for "views" and
\* for every unrecognized key, with equal videos in input order.
C3_SortIsStableDescending ==
    r_pc = "done"
        => IsStableDescending(r_out, r_videos, SelectedField(r_sort_key))

\* a sort by comments that moves a video and has a tie to keep in order
C3_Witness ==
    /\ r_pc = "done"
    /\ SelectedField(r_sort_key) = "comment_count"
    /\ r_out # r_videos
    /\ \E i, j \in DOMAIN r_out :
          /\ i < j
          /\ r_out[i].comment_count = r_out[j].comment_count
          /\ r_out[i] # r_out[j]

----------------------------------------------------------------------------
(* Claims about TermMatcher.match, checked under SpecMatcher *)

IsBlank(t) == \A i \in DOMAIN t : t[i] \in Whitespace

NonBlankTerms(terms) == SelectSeq(terms, LAMBDA t : ~IsBlank(t))

\* the greatest number of pairwise non-overlapping occurrences of t in text
NonOverlappingCount(text, t) ==
    LET starts == {i \in 1..(Len(text) - Len(t) + 1) :
                      SubSeq(text, i, i + Len(t) - 1) = t}
        disjoint == {S \in SUBSET starts :
                        \A i, j \in S : i < j => j - i >= Len(t)}
    IN  CHOOSE n \in 0..Len(text) :
            /\ \E S \in disjoint : Cardinality(S) = n
            /\ \A S \in disjoint : Cardinality(S) <= n

\* a non-empty comment that the terms match under the mode
IsMatched(c, terms, mode) ==
    /\ c # <<>>
    /\ IF mode = "all"
       THEN \A k \in DOMAIN terms : Contains(Lower(c), Lower(terms[k]))
       ELSE \E k \in DOMAIN terms : Contains(Lower(c), Lower(terms[k]))

HitsIn(c, terms) ==
    SumSeq([k \in DOMAIN terms |->
               NonOverlappingCount(Lower(c), Lower(terms[k]))])

\* C4: without a non-blank term match returns (0, 0, []); otherwise
\* matched_comment_count is the number of non-empty comments that contain
\* every term (mode all) or some term (mode any), compared in lower case,
\* and total_hits is the sum over those comments of the non-overlapping
\* occurrence counts of every term.
C4_MatchCountsMatchedCommentsAndTheirHits ==
    m_pc = "done" =>
        LET terms == NonBlankTerms(m_tq.terms)
            hits == [i \in DOMAIN m_comments |->
                        IF IsMatched(m_comments[i], terms, m_tq.mode)
                        THEN HitsIn(m_comments[i], terms) ELSE 0]
            matched == {i \in DOMAIN m_comments :
                           IsMatched(m_comments[i], terms, m_tq.mode)}
        IN  IF terms = <<>> THEN m_out = <<0, 0, <<>>>>
            ELSE /\ m_out[2] = Cardinality(matched)
                 /\ m_out[1] = SumSeq(hits)

\* mode all with a matched comment and a comment that holds one of the
\* terms only, so that its occurrences must not be counted
C4_Witness ==
    /\ m_pc = "done"
    /\ m_tq.mode = "all"
    /\ m_out[2] >= 1
    /\ m_out[1] > 2 * m_out[2]
    /\ \E i \in DOMAIN m_comments :
          /\ ~IsMatched(m_comments[i], NonBlankTerms(m_tq.terms), "all")
          /\ IsMatched(m_comments[i], NonBlankTerms(m_tq.terms), "any")

----------------------------------------------------------------------------
(* Claims about SearchService.search, checked under SpecSearch *)

\* C7: a failing API request during search (search.list on any page,
\* videos.list on any batch) is caught in the client, which returns what it
\* gathered before the failure: no exception reaches the caller of search.
C7_ApiFailureDoesNotLeaveSearch ==
    (\E i \in DOMAIN yt_log : yt_log[i].outcome.tag = "raise")
        => /\ s_pc # "raised"
           /\ s_out.tag = "ok"

\* the fetched videos that pass the filters given to search
PassingFetched ==
    IF s_args.filters = None THEN s_videos
    ELSE SelectSeq(s_videos,
                   LAMBDA v : /\ PassesThresholds(v, s_args.filters[1], s_now)
                              /\ \/ s_args.filters[1].since_days = None
                                 \/ WellFormedUTC(v))

ClampedTop == IF s_args.top > 1 THEN s_args.top ELSE 1

\* C9: search returns the first max(1, top) entries of the filtered then
\* ranked list: min(max(1, top), number passing) videos, all passing,
\* non-increasing in the sort field, none left out that passes and has a
\* strictly greater value than a returned one.
C9_SearchReturnsTopOfFilteredRanked ==
    s_pc = "done" =>
        LET out == s_out.val
            passing == PassingFetched
            field == SelectedField(s_args.sort)
        IN  /\ s_out.tag = "ok"
            /\ Len(out) = Min(ClampedTop, Len(passing))
            /\ \E p \in Permutations(DOMAIN passing) :
                  /\ \A i, j \in DOMAIN passing :
                        i < j =>
                          \/ passing[p[i]][field] > passing[p[j]][field]
                          \/ /\ passing[p[i]][field] = passing[p[j]][field]
                             /\ p[i] < p[j]
                  /\ \A i \in DOMAIN out : out[i] = passing[p[i]]
                  /\ \A i \in DOMAIN out, j \in DOMAIN passing :
                        j > Len(out) => passing[p[j]][field] <= out[i][field]
            /\ \A i, j \in DOMAIN out : i < j => out[i][field] >= out[j][field]

\* top = 0 with a filter that drops a fetched video and lets two pass:
\* one video is returned
C9_Witness ==
    /\ s_pc = "done"
    /\ s_args.top = 0
    /\ s_args.filters # None
    /\ Len(PassingFetched) >= 2
    /\ Len(PassingFetched) < Len(s_videos)
    /\ Len(s_out.val) = 1

----------------------------------------------------------------------------
(* Claims about CommentTermsService.run_on_videos, checked under SpecTerms *)

\* the terms of the query as run_on_videos names them: trimmed, blank
\* ones left out
QueryTerms == {Strip(t) : t \in Range(NonBlankTerms(t_args.terms.terms))}

CounterValue(counter, key) ==
    IF key \in DOMAIN counter THEN counter[key] ELSE 0

\* the number of fetched comments, over all videos, that contain the term
CommentsContaining(term) ==
    SumSeq([j \in DOMAIN t_comments |->
               Cardinality({c \in DOMAIN t_comments[j] :
                               Contains(Lower(t_comments[j][c]),
                                        Lower(term))})])

\* C5: the global term totals map each term to the number of fetched
\* comments that contain it, compared in lower case: a comment adds exactly
\* 1 to the count of a term it contains, 0 otherwise.
C5_TotalsCountCommentsContainingTheTerm ==
    t_pc = "done" =>
        /\ DOMAIN t_out[2] \subseteq QueryTerms
        /\ \A term \in QueryTerms :
              CounterValue(t_out[2], term) = CommentsContaining(term)

\* the requests issued for the video at position j, in order
RequestsFor(j) == SelectSeq(yt_log, LAMBDA q : q.call = j)

FetchFailed(j) ==
    \E i \in DOMAIN RequestsFor(j) : RequestsFor(j)[i].outcome.tag = "raise"

\* the texts of the pages delivered for the video at position j
RECURSIVE DeliveredTexts(_)
DeliveredTexts(requests) ==
    IF requests = <<>> THEN <<>>
    ELSE (IF Head(requests).outcome.tag = "raise" THEN <<>>
          ELSE SelectSeq(Head(requests).outcome.val.items,
                         LAMBDA t : t # NoText))
         \o DeliveredTexts(Tail(requests))

\* every video before the one being fetched has been analysed, and when
\* run_on_videos is done every video has been requested
EveryVideoIsFetched ==
    /\ t_pc \in {"called", "fetch_comment_text", "done"}
    /\ t_pc = "fetch_comment_text" => Len(t_comments) = t_i - 1
    /\ (t_pc = "done" /\ t_args.comments_per_video >= 1)
           => /\ Len(t_comments) = Len(t_args.videos)
              /\ \A j \in DOMAIN t_args.videos : RequestsFor(j) # <<>>

PairGreater(x, y) == x[1] > y[1] \/ (x[1] = y[1] /\ x[2] > y[2])

ResultPair(r) == <<r.total_term_hits, r.matched_comments>>

\* C8: the returned results are in descending order of (total_term_hits,
\* matched_comments), and results with equal pairs are in the order of
\* their videos in the input list.
C8_ResultsSortedDescendingStable ==
    t_pc = "done" =>
        LET out == t_out[1]
        IN  \E pos \in [DOMAIN out -> DOMAIN t_args.videos] :
                /\ \A i, j \in DOMAIN out : i # j => pos[i] # pos[j]
                /\ \A i \in DOMAIN out :
                      /\ out[i].video = t_args.videos[pos[i]]
                      /\ out[i].samples =
                             match(t_comments[pos[i]], t_args.terms)[3]
                      /\ ResultPair(out[i]) =
                             <<match(t_comments[pos[i]], t_args.terms)[1],
                               match(t_comments[pos[i]], t_args.terms)[2]>>
                /\ \A i, j \in DOMAIN out :
                      i < j =>
                        \/ PairGreater(ResultPair(out[i]), ResultPair(out[j]))
                        \/ /\ ResultPair(out[i]) = ResultPair(out[j])
                           /\ pos[i] < pos[j]

\* the result of the second video is returned before that of the first
C8_Witness ==
    /\ t_pc = "done"
    /\ Len(t_out[1]) = 2
    /\ t_args.videos[1] # t_args.videos[2]
    /\ t_out[1][1].video = t_args.videos[2]
    /\ t_out[1][1].total_term_hits = t_out[1][2].total_term_hits
    /\ t_out[1][1].matched_comments > t_out[1][2].matched_comments

\* the positions of the videos analysed so far that have a matched comment
MatchedVideos ==
    {j \in DOMAIN t_comments :
        \E c \in DOMAIN t_comments[j] :
            IsMatched(t_comments[j][c], NonBlankTerms(t_args.terms.terms),
                      t_args.terms.mode)}

\* C10: run_on_videos emits exactly one result for each video whose
\* fetched comments hold a matched comment and none for another video; the
\* result carries the video and what the matcher computed on its comments.
C10_OneResultPerVideoWithAMatch ==
    /\ Len(t_results) = Cardinality(MatchedVideos)
    /\ \E pos \in [DOMAIN t_results -> MatchedVideos] :
          /\ \A i, j \in DOMAIN t_results : i < j => pos[i] < pos[j]
          /\ \A i \in DOMAIN t_results :
                LET m == match(t_comments[pos[i]], t_args.terms)
                IN  /\ t_results[i].video = t_args.videos[pos[i]]
                    /\ t_results[i].total_term_hits = m[1]
                    /\ t_results[i].matched_comments = m[2]
                    /\ t_results[i].samples = m[3]
    /\ t_pc = "done" =>
          /\ Len(t_out[1]) = Len(t_results)
          /\ \A r \in Range(t_results) :
                Cardinality({i \in DOMAIN t_out[1] : t_out[1][i] = r}) =
                Cardinality({i \in DOMAIN t_results : t_results[i] = r})

\* two videos with comments, of which only the second has a comment that
\* holds every term
C10_Witness ==
    /\ t_pc = "done"
    /\ t_args.terms.mode = "all"
    /\ Len(t_args.videos) = 2
    /\ t_comments[1] # <<>>
    /\ MatchedVideos = {2}
    /\ Len(t_out[1]) = 1

----------------------------------------------------------------------------
(* Further claims about TermMatcher.match, checked under SpecMatcher *)

\* the matched comments of a list, in the order of the list
MatchedComments(comments, tq) ==
    LET terms == NonBlankTerms(tq.terms)
    IN  SelectSeq(comments,
                  LAMBDA c : terms # <<>> /\ IsMatched(c, terms, tq.mode))

\* C12: the samples are the first min(3, matched_comment_count) matched
\* comments, in input order and with their original text.
C12_SamplesAreTheFirstMatchedVerbatim ==
    m_pc = "done" =>
        LET matched == MatchedComments(m_comments, m_tq)
        IN  /\ Len(m_out[3]) = Min(3, m_out[2])
            /\ m_out[3] = SubSeq(matched, 1, Min(3, Len(matched)))

\* four matched comments of which the first holds an upper-case letter
\* and the fourth, which is left out, differs from the third
C12_Witness ==
    /\ m_pc = "done"
    /\ m_out[2] = 4
    /\ Len(m_out[3]) = 3
    /\ m_out[3][1] # Lower(m_out[3][1])
    /\ m_comments[4] # m_comments[3]

----------------------------------------------------------------------------
(* Further claims about run_on_videos, checked under SpecTerms *)

\* the query of the call with the other mode
OtherMode ==
    [t_args.terms EXCEPT !.mode = IF @ = "any" THEN "all" ELSE "any"]

\* the analysis of the fetched comments of the video at position j, on its
\* own, under the query tq
AnalysisOf(j, tq) ==
    analyse_video(<<<<>>, EmptyCounter>>, t_args.videos[j], t_comments[j],
                  tq)

\* the analysis of the comments fetched so far, from video j on, under tq
RECURSIVE AnalysisFrom(_, _, _)
AnalysisFrom(j, acc, tq) ==
    IF j > Len(t_comments) THEN acc
    ELSE AnalysisFrom(j + 1,
                      analyse_video(acc, t_args.videos[j], t_comments[j],
                                    tq),
                      tq)

\* C11: on the same videos, comments and terms the global term totals, and
\* the per-video term counts of every video that has a result under both
\* modes, are the same under mode "any" and under mode "all".
C11_TermCountsDoNotDependOnTheMode ==
    /\ t_term_totals = AnalysisFrom(1, <<<<>>, EmptyCounter>>, OtherMode)[2]
    /\ t_pc = "done" => t_out[2] = t_term_totals
    /\ \A j \in DOMAIN t_comments :
          LET here == AnalysisOf(j, t_args.terms)[1]
              there == AnalysisOf(j, OtherMode)[1]
          IN  /\ here # <<>> => here[1] \in Range(t_results)
              /\ (here # <<>> /\ there # <<>>)
                    => here[1].per_term_unique_comments =
                       there[1].per_term_unique_comments

\* mode "all" with two terms: no video has a result, and a comment that
\* holds one of the terms only is counted for it
C11_Witness ==
    /\ t_pc = "done"
    /\ t_args.terms.mode = "all"
    /\ Len(NonBlankTerms(t_args.terms.terms)) = 2
    /\ t_comments # <<>>
    /\ t_out[1] = <<>>
    /\ \E term \in QueryTerms : CounterValue(t_out[2], term) >= 1


\* C14: fetch_comment_text never raises on an API failure and returns at
\* most max_comments texts, in the order the API delivered them, when no
\* page holds more than the requested maxResults items; for
\* max_comments < 1 it issues no request.
C14_FetchCommentTextIsSilentBoundedAndOrdered ==
    /\ t_pc \in {"called", "fetch_comment_text", "done"}
    /\ t_args.comments_per_video < 1 => yt_log = <<>>
    /\ \A i \in DOMAIN yt_log :
          /\ yt_log[i].maxResults >= 1
          /\ yt_log[i].outcome.tag = "ok"
                => Len(yt_log[i].outcome.val.items) <= yt_log[i].maxResults
    /\ \A j \in DOMAIN t_args.videos :
          FetchFailed(j) => j \in DOMAIN t_comments
    /\ \A j \in DOMAIN t_comments :
          /\ Len(t_comments[j]) <= t_args.comments_per_video
                \/ t_comments[j] = <<>>
          /\ \A k \in DOMAIN t_comments[j] : t_comments[j][k] # NoText
          /\ t_comments[j] = DeliveredTexts(RequestsFor(j))

\* a fetch of two comments that takes two pages of one comment each
C14_Witness ==
    /\ t_pc = "done"
    /\ t_args.comments_per_video = 2
    /\ t_comments # <<>>
    /\ Len(RequestsFor(1)) = 2
    /\ ~FetchFailed(1)
    /\ Len(t_comments[1]) = 2
    /\ t_comments[1][1] # t_comments[1][2]

\* C17: with comments_per_video below 1 run_on_videos issues no comment
\* request, every video yields no comment and no match, and it returns an
\* empty results list with an empty term totals mapping.
C17_NoCommentsRequestedGivesEmptyResult ==
    t_args.comments_per_video < 1 =>
        /\ yt_log = <<>>
        /\ t_pc \in {"called", "done"}
        /\ t_pc = "done" =>
              /\ Len(t_comments) = Len(t_args.videos)
              /\ \A j \in DOMAIN t_comments :
                    /\ t_comments[j] = <<>>
                    /\ match(t_comments[j], t_args.terms) = <<0, 0, <<>>>>
              /\ t_results = <<>>
              /\ t_out = <<<<>>, EmptyCounter>>

\* two videos and a non-blank term, with comments_per_video 0 or -1
C17_Witness ==
    /\ t_pc = "done"
    /\ t_args.comments_per_video < 1
    /\ Len(t_args.videos) = 2
    /\ QueryTerms # {}

----------------------------------------------------------------------------
(* Claims about YouTubeClient.search_video_ids, checked under SpecSearch *)

\* the search.list requests issued so far, in order
SearchListRequests == SelectSeq(yt_log, LAMBDA q : q.api = "search.list")

\* search_video_ids has returned a list
SearchReturned ==
    /\ s_pc # "search_video_ids"
    /\ \A i \in DOMAIN SearchListRequests :
          SearchListRequests[i].outcome.tag = "ok"

\* the identifiers of the items of the pages read, in order, an item
\* without one left out
RECURSIVE IdsOfPages(_)
IdsOfPages(requests) ==
    IF requests = <<>> THEN <<>>
    ELSE LET items == Head(requests).outcome.val.items
             withId == SelectSeq(items, LAMBDA it : it # None)
         IN  [i \in DOMAIN withId |-> withId[i][1]]
             \o IdsOfPages(Tail(requests))

\* the list search_video_ids returned, as fetch_videos received it
RECURSIVE Concatenation(_)
Concatenation(seqs) ==
    IF seqs = <<>> THEN <<>> ELSE Head(seqs) \o Concatenation(Tail(seqs))

ReturnedIds == Concatenation(yt_fetch.chunks)

FirstIndex(seq, x) ==
    CHOOSE i \in DOMAIN seq :
        seq[i] = x /\ \A k \in 1..(i - 1) : seq[k] # x

\* C15: the list search_video_ids returns has no duplicate, holds exactly
\* the identifiers present in the pages read, and orders them by their
\* first occurrence across the pages.
C15_ReturnedIdsAreThePagesIdsDeduplicated ==
    SearchReturned =>
        LET found == IdsOfPages(SearchListRequests)
            ids == ReturnedIds
        IN  /\ \A i, j \in DOMAIN ids : i # j => ids[i] # ids[j]
            /\ Range(ids) = Range(found)
            /\ \A i, j \in DOMAIN ids :
                  i < j => FirstIndex(found, ids[i]) < FirstIndex(found, ids[j])

\* two pages of two items: a repeated identifier on the first, two new
\* ones on the second
C15_Witness ==
    /\ SearchReturned
    /\ Len(SearchListRequests) = 2
    /\ Len(IdsOfPages(SearchListRequests)) = 4
    /\ Len(ReturnedIds) = 3
    /\ ReturnedIds[1] = IdsOfPages(SearchListRequests)[2]

\* C16: search_video_ids issues at least one and at most max(1, pages)
\* requests, each with maxResults = min(50, max(1, per_page)); the first
\* carries no page token, every later one the next-page token of the
\* response before it, and none follows a response without such a token.
C16_SearchRequestsAreClampedAndChained ==
    LET reqs == SearchListRequests
        most == IF s_args.pages > 1 THEN s_args.pages ELSE 1
        atLeastOne == IF s_args.per_page > 1 THEN s_args.per_page ELSE 1
    IN  /\ Len(reqs) <= most
        /\ s_pc # "search_video_ids" => Len(reqs) >= 1
        /\ \A i \in DOMAIN reqs :
              /\ reqs[i].maxResults =
                     (IF atLeastOne < 50 THEN atLeastOne ELSE 50)
              /\ i = 1 => reqs[i].pageToken = None
              /\ i > 1 =>
                    /\ reqs[i - 1].outcome.tag = "ok"
                    /\ reqs[i - 1].outcome.val.nextPageToken # None
                    /\ reqs[i].pageToken =
                           reqs[i - 1].outcome.val.nextPageToken

\* pages and per_page below 1: one request with maxResults 1, and none
\* after it although its response carries a next-page token
C16_Witness ==
    /\ s_pc # "search_video_ids"
    /\ s_args.pages < 1
    /\ s_args.per_page < 0
    /\ Len(SearchListRequests) = 1
    /\ SearchListRequests[1].maxResults = 1
    /\ SearchListRequests[1].outcome.tag = "ok"
    /\ SearchListRequests[1].outcome.val.nextPageToken # None

----------------------------------------------------------------------------
(* Claims about CommentTermsService.run, checked under SpecRun *)

\* the commentThreads.list requests issued so far, in order
CommentRequests ==
    SelectSeq(yt_log, LAMBDA q : q.api = "commentThreads.list")

\* the number of videos run hands to run_on_videos
AnalysedCount ==
    Min(IF run_args.top_videos > 1 THEN run_args.top_videos ELSE 1,
        Len(run_videos))

\* C13: run ranks the fetched videos by view_count only, requests comments
\* for exactly the first max(1, top_videos) of that ranking (fewer when
\* fewer were fetched) and for no other video, and returns the results
\* list run_on_videos produces for them.
C13_RunAnalysesTheMostViewedOnly ==
    /\ run_pc \in {"search_video_ids", "fetch_videos", "raised"}
          => CommentRequests = <<>>
    /\ run_pc \in {"run_on_videos", "done"} =>
          /\ Len(t_args.videos) = AnalysedCount
          /\ t_args.terms = run_args.terms
          /\ t_args.comments_per_video = run_args.comments_per_video
          /\ \E p \in Permutations(DOMAIN run_videos) :
                /\ \A i, j \in DOMAIN run_videos :
                      i < j =>
                        \/ run_videos[p[i]].view_count
                              > run_videos[p[j]].view_count
                        \/ /\ run_videos[p[i]].view_count
                                = run_videos[p[j]].view_count
                           /\ p[i] < p[j]
                /\ \A i \in DOMAIN t_args.videos :
                      t_args.videos[i] = run_videos[p[i]]
          /\ \A i \in DOMAIN CommentRequests :
                /\ CommentRequests[i].call \in DOMAIN t_args.videos
                /\ CommentRequests[i].videoId =
                       t_args.videos[CommentRequests[i].call].video_id
    /\ run_pc = "done" =>
          /\ t_pc = "done"
          /\ \A j \in DOMAIN t_args.videos :
                \E i \in DOMAIN CommentRequests :
                    CommentRequests[i].call = j
          /\ run_out =
                 Ok(run_on_videos_return(
                        AnalysisFrom(1, <<<<>>, EmptyCounter>>,
                                     t_args.terms))[1])

\* top_videos = 0 with several fetched videos of which the first is not
\* the most viewed: one video is analysed, and it has a result
C13_Witness ==
    /\ run_pc = "done"
    /\ run_args.top_videos = 0
    /\ Len(run_videos) >= 2
    /\ Len(t_args.videos) = 1
    /\ t_args.videos[1] # run_videos[1]
    /\ run_out.tag = "ok"
    /\ Len(run_out.val) = 1

----------------------------------------------------------------------------
(* Claims about get_api_key, checked under SpecConfig *)

\* the key a file supplies on its own: what loading it into an empty
\* environment gives the variable, "" when it gives none
SuppliedBy(file) ==
    LET loaded == IF file.exists
                  THEN _load_env_file([name \in {} |-> <<>>], file)
                  ELSE [name \in {} |-> <<>>]
    IN  IF _KEY_NAME \in DOMAIN loaded THEN loaded[_KEY_NAME] ELSE <<>>

\* the non-empty keys of the three sources, in the order of their priority
SuppliedKeys ==
    SelectSeq(<<IF _KEY_NAME \in DOMAIN cfg_environ
                THEN cfg_environ[_KEY_NAME] ELSE <<>>,
                SuppliedBy(cfg_dotenv), SuppliedBy(cfg_user)>>,
              LAMBDA key : key # <<>>)

\* C20: get_api_key returns the key of the first of the process
\* environment, the .env file and the per-user config file that supplies
\* a non-empty key, and raises only when none of them does.
C20_KeyOfTheFirstSourceThatSuppliesOne ==
    [][cfg_pc = "called" /\ cfg_pc' = "done"
           => cfg_out' = IF SuppliedKeys = <<>> THEN Raise("RuntimeError")
                         ELSE Ok(SuppliedKeys[1])]_vars

----------------------------------------------------------------------------
(* Claims about the window, checked under SpecGui *)

\* the number of showerror dialogs shown so far
ErrorsShown ==
    IF "showerror" \in DOMAIN g_dialogs THEN g_dialogs["showerror"] ELSE 0

ErrorMessages(q) == SelectSeq(q, LAMBDA m : m.status = "err")

\* a step in which the worker thread at position i puts the message m
PutBy(i, m) ==
    /\ g_threads[i].state = "running"
    /\ g_threads' = [g_threads EXCEPT ![i].state = "finished"]
    /\ m.task_name = g_threads[i].task_name
    /\ g_q' = Append(g_q, m)

\* C18: a task puts one message, once; a poll shows one error for each
\* error message it takes; and what the window displays (_videos,
\* _combined_results, _analysis_by_video_id, _last_term_totals, the rows
\* of the table) changes only in a poll that takes a message of a
\* successful task, so that launching a task that fails and polling its
\* message leaves it as it was.
C18_FailedTaskShowsOneErrorAndKeepsTheDisplay ==
    [][/\ displayVars' # displayVars
             => g_q' = <<>> /\ ErrorMessages(g_q) # g_q
       /\ (g_q # <<>> /\ g_q' = <<>>)
             => /\ ErrorsShown' = ErrorsShown + Len(ErrorMessages(g_q))
                /\ g_q[Len(g_q)].status = "err" => g_status' = "Error."
       /\ (g_q' # g_q /\ g_q' # <<>>)
             => /\ ErrorsShown' = ErrorsShown
                /\ \E i \in DOMAIN g_threads :
                      \E m \in {g_q'[Len(g_q')]} : PutBy(i, m)
       /\ g_threads' # g_threads /\ g_q' = g_q
             => /\ ErrorsShown' = ErrorsShown
                /\ g_threads' = Append(g_threads,
                                       g_threads'[Len(g_threads')])
                /\ g_threads'[Len(g_threads')].state = "running"]_vars

\* an error has been shown for a failed task while the window still
\* displays the videos and the rows of an earlier successful task
C18_Witness ==
    /\ g_status = "Error."
    /\ ErrorsShown = 1
    /\ g_q = <<>>
    /\ Len(g_threads) = 2
    /\ g_videos # <<>>
    /\ g_tree # <<>>

\* the text holds a keyword: a character that is neither a comma nor
\* white space
HasKeyword(text) ==
    \E i \in DOMAIN text : text[i] \notin Whitespace \cup {","}

\* C19: a worker thread is started only by "Run Query Only" with a query
\* that is not blank after trimming, or by "Run Full Analysis" with such
\* a query and a terms field that holds a keyword after splitting on
\* commas and trimming.
C19_MissingInputStartsNoThread ==
    [][Len(g_threads') > Len(g_threads)
           => /\ Strip(g_query_var) # <<>>
              /\ g_threads'[Len(g_threads')].task_name = "combined"
                    => HasKeyword(g_terms_var)]_vars

----------------------------------------------------------------------------
(* Further claims about run_on_videos, checked under SpecTerms *)

\* the number of distinct non-blank term strings of the query
DistinctTerms == Cardinality(Range(NonBlankTerms(t_args.terms.terms)))

WellFormedResult(r) ==
    /\ r.total_term_hits >= r.matched_comments
    /\ r.matched_comments >= 1
    /\ Len(r.samples) = Min(3, r.matched_comments)
    /\ t_args.terms.mode = "all"
          => r.total_term_hits >= DistinctTerms * r.matched_comments

\* C30: every result that run_on_videos gathers or returns has
\* total_term_hits >= matched_comments >= 1 and min(3, matched_comments)
\* samples, and in mode "all" with k distinct non-blank terms
\* total_term_hits >= k * matched_comments.
C30_ResultsAreWellFormed ==
    /\ \A i \in DOMAIN t_results : WellFormedResult(t_results[i])
    /\ t_pc = "done" =>
          \A i \in DOMAIN t_out[1] : WellFormedResult(t_out[1][i])

\* a returned result with more matched comments than samples kept
C30_Witness ==
    /\ t_pc = "done"
    /\ \E i \in DOMAIN t_out[1] :
          /\ t_out[1][i].matched_comments > 3
          /\ Len(t_out[1][i].samples) = 3
          /\ t_out[1][i].total_term_hits > t_out[1][i].matched_comments


\* the one term of the query, as run_on_videos names it
TheTerm == Strip(t_args.terms.terms[1])

\* C28: for a query of one non-blank term in mode "any", the
\* matched_comments of every result equals the unique-comment count the
\* result records for the term, and the matched comments of all results
\* add up to the global count of the term, so that a video outside the
\* results has no comment counted for the term.
C28_MatcherAndCounterAgreeOnATerm ==
    (/\ t_pc = "done"
     /\ t_args.terms.mode = "any"
     /\ Len(t_args.terms.terms) = 1
     /\ ~IsBlank(t_args.terms.terms[1]))
    => /\ \A i \in DOMAIN t_out[1] :
             t_out[1][i].matched_comments =
             CounterValue(t_out[1][i].per_term_unique_comments, TheTerm)
       /\ SumSeq([i \in DOMAIN t_out[1] |-> t_out[1][i].matched_comments])
          = CounterValue(t_out[2], TheTerm)

----------------------------------------------------------------------------
(* Claims about YouTubeClient called by itself *)

VideosListRequests == SelectSeq(yt_log, LAMBDA q : q.api = "videos.list")

RequestedIds ==
    Concatenation([i \in DOMAIN VideosListRequests |->
                      VideosListRequests[i].id])

ParsedItems(q) ==
    [i \in DOMAIN q.outcome.val.items |->
        video_of_item(q.outcome.val.items[i])]

\* C25: every videos.list request of fetch_videos carries between 1 and
\* 50 identifiers, the requests issued so far carry, one after another,
\* the leading identifiers of the input in input order (so each input
\* position is in one request), an empty input causes no request, and
\* when fetch_videos returns the requests carry the whole input and the
\* value is the concatenation, in request order, of the records parsed
\* from the responses.
C25_FetchVideosBatchesInOrder ==
    /\ \A i \in DOMAIN VideosListRequests :
          /\ Len(VideosListRequests[i].id) >= 1
          /\ Len(VideosListRequests[i].id) <= 50
    /\ Len(RequestedIds) <= Len(yc_args.arg)
    /\ RequestedIds = SubSeq(yc_args.arg, 1, Len(RequestedIds))
    /\ yc_args.arg = <<>> => yt_log = <<>>
    /\ yc_pc = "done" =>
          /\ RequestedIds = yc_args.arg
          /\ yc_out =
                Ok(Concatenation([i \in DOMAIN VideosListRequests |->
                                     ParsedItems(VideosListRequests[i])]))

\* fetch_videos has returned records of three requests, the last of them
\* for a single identifier
C25_Witness ==
    /\ yc_pc = "done"
    /\ Len(yc_args.arg) = 101
    /\ Len(VideosListRequests) = 3
    /\ Len(VideosListRequests[3].id) = 1
    /\ Len(yc_out.val) > 50


\* C22: every call of fetch_comment_text returns, whatever the API
\* answers, pages with a next-page token and no usable text included.
C22_FetchCommentTextTerminates == <>(yc_pc = "done")


\* the window with its "Export JSON" button
NextExport == NextGui \/ ExportJson
SpecExport == InitGui /\ [][NextExport]_vars


(* Claims about the export, checked under SpecExport *)

OkMessages(q) == SelectSeq(q, LAMBDA m : m.status = "ok")

\* the message of the task processed last in a poll of the queue q
LastOk(q) == OkMessages(q)[Len(OkMessages(q))]

ResultsOf(id) == {r \in Range(g_combined_results) : r.video.video_id = id}

\* C21: a poll leaves as video list and combined results those of the
\* last successful task it takes, the results being empty for a
\* search-only task; and the export holds one object per video of the
\* list, in order, with comment_analysis exactly for the videos that
\* have a result among these combined results, its term_hits,
\* matched_comments and samples being those of the result.
C21_ExportCarriesTheAnalysisOfItsList ==
    [][/\ (g_q' = <<>> /\ OkMessages(g_q) # <<>>)
             => IF LastOk(g_q).task_name = "search_only"
                THEN /\ g_videos' = LastOk(g_q).data
                     /\ g_combined_results' = <<>>
                ELSE /\ g_videos' = LastOk(g_q).data[1]
                     /\ g_combined_results' = LastOk(g_q).data[2]
       /\ g_export' # g_export
             => /\ Len(g_export'[1]) = Len(g_videos)
                /\ \A i \in DOMAIN g_videos :
                      LET item == g_export'[1][i]
                          rs == ResultsOf(g_videos[i].video_id)
                      IN  /\ item.video_id = g_videos[i].video_id
                          /\ item.view_count = g_videos[i].view_count
                          /\ IF rs = {}
                             THEN item.comment_analysis = None
                             ELSE \E r \in rs :
                                    item.comment_analysis =
                                    Some([term_hits |-> r.total_term_hits,
                                          matched_comments |->
                                              r.matched_comments,
                                          samples |-> r.samples])]_vars

\* an export of two videos of an analysis, of which only the second has
\* a result
C21_Witness ==
    /\ g_export # None
    /\ Len(g_export[1]) = 2
    /\ g_export[1][1].comment_analysis = None
    /\ g_export[1][2].comment_analysis # None
    /\ g_export[1][2].comment_analysis[1].samples # <<>>


(* Claims about the worker threads and the queue, checked under SpecGui *)

RunningThreads == {i \in DOMAIN g_threads : g_threads[i].state = "running"}

\* C23: at most one worker thread is running, so that the queue has a
\* single producer.
C23_AtMostOneWorkerRuns == Cardinality(RunningThreads) <= 1


\* every action launched has completed without error and its message has
\* been polled
AllCompletedAndPolled ==
    /\ g_threads # <<>>
    /\ RunningThreads = {}
    /\ g_q = <<>>
    /\ ErrorsShown = 0

\* C27: once every launched action has completed and been polled, what
\* the window shows is the outcome of the action launched last: after a
\* search-only action the status of a search, no combined results, no
\* term totals and rows without hits; after a full analysis the status
\* of an analysis and rows with hits.
C27_TheActionLaunchedLastIsShown ==
    AllCompletedAndPolled
    => IF g_threads[Len(g_threads)].task_name = "search_only"
       THEN /\ g_status = "Search complete."
            /\ g_combined_results = <<>>
            /\ g_last_term_totals = EmptyCounter
            /\ \A i \in DOMAIN g_tree : g_tree[i].hits = None
       ELSE /\ g_status = "Analysis complete."
            /\ \A i \in DOMAIN g_tree : g_tree[i].hits # None


\* The window with its periodic poll: _poll_queue re-arms itself with
\* after(100, ...) at its end, so a poll that has a message to take is
\* not put off for ever.
FairGui == SpecGui /\ WF_vars(PollQueue)

RunningStatus == {"Running search_only...", "Running analysis..."}

CompletionStatus(msg) ==
    IF msg.status = "err" THEN "Error."
    ELSE IF msg.task_name = "search_only" THEN "Search complete."
    ELSE "Analysis complete."

\* C29: a worker that finishes puts one message and never another; a
\* message on the queue is eventually taken by the poll; the queue loses
\* messages only to the poll, which takes all of them, shows one error
\* for each error message and leaves the status of the last message; and
\* when no task is running and the queue is empty the status is not a
\* "Running" one.
C29_EveryMessageIsPolledOnce ==
    /\ (g_q # <<>>) ~> (g_q = <<>>)
    /\ [](g_threads # <<>> /\ RunningThreads = {} /\ g_q = <<>>
             => g_status \notin RunningStatus)
    /\ [][/\ g_q' # g_q
              => \/ /\ g_q' = <<>>
                    /\ g_threads' = g_threads
                    /\ ErrorsShown' = ErrorsShown + Len(ErrorMessages(g_q))
                    /\ g_status' = CompletionStatus(g_q[Len(g_q)])
                 \/ /\ Len(g_q') = Len(g_q) + 1
                    /\ SubSeq(g_q', 1, Len(g_q)) = g_q
                    /\ Cardinality(RunningThreads') =
                           Cardinality(RunningThreads) - 1
          /\ RunningThreads' \subseteq RunningThreads \cup {Len(g_threads')}
          /\ (RunningThreads' # RunningThreads
                 /\ Len(g_threads') = Len(g_threads))
              => Len(g_q') = Len(g_q) + 1]_vars

\* two tasks have finished, one of them with an error, and both messages
\* have been polled, the one of the analysis last
C29_Witness ==
    /\ Len(g_threads) = 2
    /\ RunningThreads = {}
    /\ g_q = <<>>
    /\ ErrorsShown = 1
    /\ g_status = "Analysis complete."


(* Claims about ThumbnailHover, checked under SpecHover *)

\* C24: an image in the tooltip is the thumbnail of the video of the row
\* under the mouse.
C24_TooltipShowsTheHoveredRow ==
    (h_tip # None /\ h_tip[1].image # None)
    => /\ h_mouse # None
       /\ RowVideo[h_mouse[1]] = h_tip[1].image

VideoIds == {RowVideo[row][1] : row \in {r \in DOMAIN RowVideo :
                                             RowVideo[r] # None}}

InFlight(vid) == {i \in DOMAIN h_workers : h_workers[i].vid = vid}

\* C26: at most one download of a video id is in flight; a download is
\* started only for an id that is neither cached nor in flight, and an
\* id once cached stays cached, so that no download follows a success;
\* and the callback of a failed download leaves the id not pending.
C26_ThumbnailsAreDownloadedOnce ==
    /\ [](\A vid \in VideoIds : Cardinality(InFlight(vid)) <= 1)
    /\ [][/\ Len(h_workers') > Len(h_workers)
               => (/\ h_workers'[Len(h_workers')].vid \notin DOMAIN h_cache
                   /\ InFlight(h_workers'[Len(h_workers')].vid) = {})
           /\ DOMAIN h_cache \subseteq DOMAIN h_cache'
           /\ \A vid \in VideoIds :
                 (vid \in DOMAIN h_cache' \ DOMAIN h_cache
                  \/ vid \in h_failed' \ h_failed
                  \/ (InFlight(vid)' = {} /\ InFlight(vid) # {}))
                 => vid \notin h_pending']_vars

\* after a failed download of video 1 a new download of it is in flight,
\* while the thumbnail of video 2 is cached
C26_Witness ==
    /\ 1 \in h_failed
    /\ \E i \in InFlight(1) : h_workers[i].state = "downloading"
    /\ 2 \in DOMAIN h_cache

=============================================================================

